---------------------------- MODULE Spec2Model ----------------------------
(***************************************************************************)
(* A model of dvfs_tool (src/src/dvfs_tool.cpp) and of its older variants  *)
(* dvfs_set and dvfs_probe: the sysfs text accessors read_text and         *)
(* write_text, the device discovery, the set / unlock commands and the     *)
(* sampling loop of cmd_log.                                               *)
(*                                                                         *)
(* Text is a sequence of characters or of longer pieces of a string, each  *)
(* a TLA+ string; "NUL" stands for the zero byte.                          *)
(***************************************************************************)
EXTENDS Integers, Sequences, FiniteSets, TLC

VARIABLES
    \* ---- read_text (one call) ----
    file,        \* the content of the file read_text is called on
    rt_pc,       \* "open" | "read" | "done"
    attempt,     \* the loop counter of read_text
    opens,       \* number of ::open calls made so far (attempts begun)
    sleeps,      \* number of usleep(1000) calls made so far
    errs,        \* errno of each failed attempt, in order
    rt_result,   \* the returned optional: NullOpt or the text
    \* ---- write_text (one call) ----
    w_val,       \* the caller's value
    w_pc,        \* "call" | "done"
    w_by,        \* which program's write_text ran: "dvfs_tool" | "dvfs_set"
    w_bytes,     \* the bytes handed to the file (NullOpt: nothing was handed)
    w_ret,       \* the returned bool
    \* ---- the sysfs tree and one discovery call ----
    fs,          \* the directories discovery looks at, in enumeration order
    d_pc,        \* "call" | "done"
    d_fn,        \* the discovery function that ran
    d_res,       \* the directory it returned (an optional path)
    d_arg,       \* the keywords it was called with, none for most
    d_reads,     \* the entries whose type it read with read_text, in order
    \* ---- one run of dvfs_tool set / unlock / log ----
    argv,        \* the command line
    c_pc,        \* "call" | "done", and inside the loop of cmd_log "check" |
                 \* "stamp" | "sample" | "row" | "watch" | "count" | "sleep"
    rc,          \* the exit status (-1: not returned yet)
    out,         \* the lines printed under "Will write:", in order
    note,        \* what else was printed: the error, "dry-run", "applied",
                 \* "Stopped."
    written,     \* the write_text calls made, in order
    \* ---- cmd_log ----
    g_stop,      \* the flag on_sigint sets
    now,         \* the steady clock, in milliseconds
    flaky,       \* the attributes whose reads may fail in this run
    period_ms,   \* the sampling period after clamping
    watch_mode,  \* --watch was given
    watch_ms,    \* the least interval between renders after clamping
    roles,       \* what discovery found: cpu_dir, gpu_dir, fan_cd, has_fan_pwm,
                 \* tz_cpu, tz_gpu, tz_soc0, tz_soc1, tz_soc2, tz_tj
    ofs,         \* the sink: the lines appended and how many are flushed
    next,        \* the next scheduled instant, in milliseconds
    line_cnt,    \* the rows counted
    prev_ts,     \* the timestamp of the tick before, 0 before the first
    last_watch_ns, \* the timestamp of the last render, 0 before the first
    watch_initialized, \* print_watch_block has drawn once
    ts,          \* the timestamp of the tick in progress, in nanoseconds
    dt,          \* its delta
    snap,        \* the values read in the tick in progress
    reads,       \* the columns read_text was called for in that tick, in order
    loop_start,  \* what the clock showed when next was initialised
    renders,     \* the timestamps of the renders made, in order
    stopped_at   \* where the loop stood and how many rows the sink held when
                 \* the flag was first set (history)

readVars == <<file, rt_pc, attempt, opens, sleeps, errs, rt_result>>
writeVars == <<w_val, w_pc, w_by, w_bytes, w_ret>>

discVars == <<d_pc, d_fn, d_res, d_arg, d_reads>>
cmdVars == <<argv, c_pc, rc, out, note, written>>

\* the flag, the environment of cmd_log, what it sets before the loop, the
\* sink, the locals of the loop, the history
envVars == <<now, flaky>>
cfgVars == <<period_ms, watch_mode, watch_ms, roles>>
loopVars == <<next, line_cnt, prev_ts, last_watch_ns, watch_initialized, ts, dt, snap, renders,
              reads, loop_start>>
logVars == <<g_stop, envVars, cfgVars, ofs, loopVars, stopped_at>>

vars == <<readVars, writeVars, fs, discVars, cmdVars, logVars>>

\* the variables outside each part of the model
notRead == <<writeVars, fs, discVars, cmdVars, logVars>>
notWrite == <<readVars, fs, discVars, cmdVars, logVars>>
notDisc == <<readVars, writeVars, cmdVars, logVars>>
notCmd == <<readVars, writeVars, discVars, logVars>>
notLog == <<readVars, writeVars, discVars, out, written>>

\* a part of the model that is not running
IdleRead ==
    /\ file = <<>> /\ rt_pc = "idle" /\ attempt = 0 /\ opens = 0 /\ sleeps = 0
    /\ errs = <<>> /\ rt_result = [some |-> FALSE, val |-> <<>>]
IdleWrite ==
    /\ w_val = <<>> /\ w_pc = "idle" /\ w_by = "" /\ w_bytes = [some |-> FALSE, val |-> <<>>]
    /\ w_ret = FALSE

\* no directory: what fs::exists(root) is false of
NoDir == [exists |-> FALSE, entries |-> <<>>]

\* std::nullopt of an optional path
NoPath == [some |-> FALSE, val |-> [root |-> "", name |-> <<>>]]

\* the legacy directory cpu0/cpufreq when it does not exist
NoCpu0 == [exists |-> FALSE, name |-> <<"cpufreq">>, dir |-> FALSE, attrs |-> {}]

\* no file: what fs::exists(path) is false of
NoFile == [exists |-> FALSE, text |-> [some |-> FALSE, val |-> <<>>]]

\* a tree with none of the directories and no pwm1 file
NoFs == [cpufreq |-> NoDir, cpu0 |-> NoCpu0, devfreq |-> NoDir, thermal |-> NoDir,
         pwm1 |-> NoFile]

IdleFs == fs = NoFs
IdleDisc == d_pc = "idle" /\ d_fn = "" /\ d_res = NoPath /\ d_arg = <<>> /\ d_reads = <<>>
IdleCmd ==
    /\ argv = <<>> /\ c_pc = "idle" /\ rc = -1 /\ out = <<>> /\ note = "" /\ written = <<>>

\* cmd_log before its first statement
NoRoles == [cpu_dir |-> NoPath, gpu_dir |-> NoPath, fan_cd |-> NoPath, has_fan_pwm |-> FALSE,
            tz_cpu |-> NoPath, tz_gpu |-> NoPath, tz_soc0 |-> NoPath, tz_soc1 |-> NoPath,
            tz_soc2 |-> NoPath, tz_tj |-> NoPath]
NoSink == [open |-> FALSE, lines |-> <<>>, flushed |-> 0]
NoStop == [pc |-> "", rows |-> -1]
LogNotBegun ==
    /\ g_stop = 0
    /\ period_ms = 0 /\ watch_mode = FALSE /\ watch_ms = 0 /\ roles = NoRoles
    /\ ofs = NoSink
    /\ next = 0 /\ line_cnt = 0 /\ prev_ts = 0 /\ last_watch_ns = 0
    /\ watch_initialized = FALSE /\ ts = 0 /\ dt = 0 /\ snap = <<>> /\ renders = <<>>
    /\ reads = <<>> /\ loop_start = 0
    /\ stopped_at = NoStop
IdleLog == LogNotBegun /\ now = 0 /\ flaky = {}

-----------------------------------------------------------------------------
(* Bounds of the model *)

\* most entries a directory holds
MaxEntries == 3

\* most words after "dvfs_tool set"
MaxArgs == 4

\* most ticks of the loop of cmd_log
MaxTicks == 2

\* most ticks of the loop of cmd_log in its long runs
MaxLongTicks == 21

\* longest short file content that is enumerated
MaxLen == 3

-----------------------------------------------------------------------------
(* Characters and text *)

NL  == "\n"
CR  == "\r"
SP  == " "
TAB == "\t"
NUL == "NUL"

\* std::optional<std::string>: std::nullopt, or a text
NullOpt == [some |-> FALSE, val |-> <<>>]
Some(s) == [some |-> TRUE, val |-> s]

\* the characters the enumerated contents are made of
Chars == {"a", NL, CR, SP, TAB, NUL}

\* sizeof(buf) in read_text
BufSize == 4096

\* all texts over S of length at most n
RECURSIVE SeqsUpTo(_, _)
SeqsUpTo(S, n) ==
    IF n = 0 THEN {<<>>}
    ELSE LET shorter == SeqsUpTo(S, n - 1)
         IN  shorter \cup {Append(s, c) : s \in {t \in shorter : Len(t) = n - 1}, c \in S}

\* n copies of character c
Fill(c, n) == [i \in 1..n |-> c]

\* contents around the size of the buffer: one that fits exactly, and ones whose
\* tail lies beyond the 4095 bytes a single read() returns
LongFiles ==
    { Fill("a", BufSize - 2) \o <<NL>>,
      Fill("a", BufSize - 1) \o <<"b", NL>>,
      Fill("a", BufSize - 2) \o <<SP, "b", NL>> }

\* the contents a file may hold
Files == SeqsUpTo(Chars, MaxLen) \cup LongFiles

\* the characters read_text strips from the tail
IsTrailingWs(c) == c = NL \/ c = CR \/ c = SP \/ c = TAB

\* pop_back_ws with the tab left out of the stripped characters
RECURSIVE pop_back_ws_no_tab(_)
pop_back_ws_no_tab(s) ==
    IF s # <<>> /\ (s[Len(s)] = NL \/ s[Len(s)] = CR \/ s[Len(s)] = SP)
    THEN pop_back_ws_no_tab(SubSeq(s, 1, Len(s) - 1))
    ELSE s

\* while (!s.empty() && (s.back() is one of \n \r space \t)) s.pop_back();
RECURSIVE pop_back_ws(_)
pop_back_ws(s) ==
    IF s # <<>> /\ IsTrailingWs(s[Len(s)])
    THEN pop_back_ws(SubSeq(s, 1, Len(s) - 1))
    ELSE s

\* ::read(fd, buf, sizeof(buf) - 1): at most BufSize - 1 bytes of the content
read_bytes(content) ==
    SubSeq(content, 1, IF Len(content) < BufSize - 1 THEN Len(content) ELSE BufSize - 1)

\* buf[n] = '\0'; std::string s(buf): the bytes of buf before its first zero byte
c_string(buf) ==
    LET zeros == {i \in 1..Len(buf) : buf[i] = NUL}
    IN  IF zeros = {} THEN buf
        ELSE SubSeq(buf, 1, (CHOOSE i \in zeros : \A j \in zeros : i <= j) - 1)

\* what a successful attempt of read_text returns for a file holding content
read_text_value(content) == pop_back_ws(c_string(read_bytes(content)))

-----------------------------------------------------------------------------
(* read_text: the retry loop *)

EAGAIN == "EAGAIN"
\* the errno values ::open can fail with
OpenErrnos == {EAGAIN, "ENOENT", "EACCES"}
\* the errno values ::read can fail with
ReadErrnos == {EAGAIN, "EIO"}

\* for (int attempt = 0; attempt < 3; ++attempt)
MaxAttempts == 3

InitRead ==
    /\ file \in Files
    /\ rt_pc = "open"
    /\ attempt = 0
    /\ opens = 0
    /\ sleeps = 0
    /\ errs = <<>>
    /\ rt_result = NullOpt
    /\ IdleWrite /\ IdleFs /\ IdleDisc /\ IdleCmd /\ IdleLog

\* rt_fail retrying whatever the errno is
rt_fail_any_errno(e) ==
    /\ errs' = Append(errs, e)
    /\ sleeps' = sleeps + 1
    /\ attempt' = attempt + 1
    /\ rt_pc' = "open"
    /\ UNCHANGED rt_result

\* a failed ::open or ::read with errno e: usleep and continue on EAGAIN,
\* return std::nullopt otherwise
rt_fail(e) ==
    /\ errs' = Append(errs, e)
    /\ IF e = EAGAIN
       THEN /\ sleeps' = sleeps + 1
            /\ attempt' = attempt + 1
            /\ rt_pc' = "open"
            /\ UNCHANGED rt_result
       ELSE /\ rt_result' = NullOpt
            /\ rt_pc' = "done"
            /\ UNCHANGED <<sleeps, attempt>>

\* the loop condition fails: return std::nullopt after the loop
RtExhausted ==
    /\ rt_pc = "open"
    /\ ~(attempt < MaxAttempts)
    /\ rt_result' = NullOpt
    /\ rt_pc' = "done"
    /\ UNCHANGED <<file, attempt, opens, sleeps, errs>>
    /\ UNCHANGED notRead

\* ::open fails
RtOpenFail ==
    /\ rt_pc = "open"
    /\ attempt < MaxAttempts
    /\ opens' = opens + 1
    /\ \E e \in OpenErrnos : rt_fail(e)
    /\ UNCHANGED file
    /\ UNCHANGED notRead

\* ::open succeeds
RtOpenOk ==
    /\ rt_pc = "open"
    /\ attempt < MaxAttempts
    /\ opens' = opens + 1
    /\ rt_pc' = "read"
    /\ UNCHANGED <<file, attempt, sleeps, errs, rt_result>>
    /\ UNCHANGED notRead

\* ::read fails (n < 0)
RtReadFail ==
    /\ rt_pc = "read"
    /\ \E e \in ReadErrnos : rt_fail(e)
    /\ UNCHANGED <<file, opens>>
    /\ UNCHANGED notRead

\* ::read succeeds: terminate the buffer, strip the tail, return the text
RtReadOk ==
    /\ rt_pc = "read"
    /\ rt_result' = Some(read_text_value(file))
    /\ rt_pc' = "done"
    /\ UNCHANGED <<file, attempt, opens, sleeps, errs>>
    /\ UNCHANGED notRead

NextRead == RtExhausted \/ RtOpenFail \/ RtOpenOk \/ RtReadFail \/ RtReadOk

SpecRead == InitRead /\ [][NextRead]_vars

\* C2: read_text makes another attempt only after a failure whose errno is
\* EAGAIN, never makes more than 3 attempts, returns the absent value when all
\* 3 attempts fail with EAGAIN, and on any other failure returns the absent
\* value on that attempt: no further attempt, and no usleep for that failure
\* (the usleep calls made are exactly those of the EAGAIN failures).
C2_RetryOnlyOnEagain ==
    /\ opens <= 3
    /\ Len(errs) <= opens
    /\ \A i \in 1..Len(errs) : i < opens => errs[i] = "EAGAIN"
    /\ sleeps = Cardinality({i \in 1..Len(errs) : errs[i] = "EAGAIN"})
    /\ (rt_pc = "done" /\ Len(errs) = 3 /\ \A i \in 1..3 : errs[i] = "EAGAIN")
          => rt_result = NullOpt
    /\ (errs # <<>> /\ errs[Len(errs)] # "EAGAIN")
          => /\ rt_pc = "done"
             /\ rt_result = NullOpt
             /\ opens = Len(errs)
             /\ sleeps = Len(errs) - 1

\* three transient failures in a row: the call has returned the absent value
C2_Witness ==
    rt_pc = "done" /\ errs = <<"EAGAIN", "EAGAIN", "EAGAIN">> /\ opens = 3

\* the four characters the claim names
TrailingSet == {"\n", "\r", " ", "\t"}

\* s without its maximal trailing run of characters of TrailingSet
WithoutTrailingRun(s) ==
    LET k == CHOOSE n \in 0..Len(s) :
                 /\ \A i \in (n + 1)..Len(s) : s[i] \in TrailingSet
                 /\ n > 0 => s[n] \notin TrailingSet
    IN  SubSeq(s, 1, k)

\* a text: no zero byte in it
IsText(s) == \A i \in 1..Len(s) : s[i] # NUL

\* C3 as stated: for every text content, a successful read_text returns the
\* content with exactly its maximal trailing run of newline, carriage return,
\* space and tab removed.
C3_Original ==
    (rt_pc = "done" /\ rt_result.some /\ IsText(file))
        => rt_result.val = WithoutTrailingRun(file)

\* C3 amended: for every text content, a successful read_text returns the first
\* 4095 bytes of the content (all of it when it is no longer than that) with
\* the maximal trailing run of newline, carriage return, space and tab removed;
\* the result ends in none of the four, and the leading and interior
\* characters of that part are preserved in order.
C3_StripsTrailingRun ==
    (rt_pc = "done" /\ rt_result.some /\ IsText(file))
        => /\ rt_result.val =
                 WithoutTrailingRun(SubSeq(file, 1, IF Len(file) < 4095 THEN Len(file) ELSE 4095))
           /\ Len(file) <= 4095 => rt_result.val = WithoutTrailingRun(file)
           /\ rt_result.val # <<>> => rt_result.val[Len(rt_result.val)] \notin TrailingSet

\* a content with leading and interior blanks and a mixed trailing run
C3_Witness ==
    /\ rt_pc = "done"
    /\ file = <<" ", "a", "\t">>
    /\ rt_result = Some(<<" ", "a">>)

-----------------------------------------------------------------------------
(* The sysfs tree *)

\* name.find(kw) != std::string::npos
Contains(s, kw) ==
    \E i \in 1..(Len(s) - Len(kw) + 1) : SubSeq(s, i, i + Len(kw) - 1) = kw

\* name.rfind(kw, 0) == 0
StartsWith(s, kw) == Len(kw) <= Len(s) /\ SubSeq(s, 1, Len(kw)) = kw

\* the keywords of the discovery functions
K_nvjpg == <<"n", "v", "j", "p", "g">>
K_nvenc == <<"n", "v", "e", "n", "c">>
K_nvdec == <<"n", "v", "d", "e", "c">>
K_vic   == <<"v", "i", "c">>
K_se    == <<"s", "e">>
K_ga10b == <<"g", "a", "1", "0", "b">>
K_gpu   == <<"g", "p", "u">>

\* names of entries of /sys/class/devfreq
N_17gpu  == <<"1", "7", ".">> \o K_gpu
N_ga10b  == K_ga10b
N_15vic  == <<"1", "5", ".">> \o K_vic
N_gpuse  == K_gpu \o <<".">> \o K_se
N_emc    == <<"e", "m", "c">>
N_host1x == <<"h", "o", "s", "t", "1", "x">>
DevfreqNames == {N_17gpu, N_ga10b, N_15vic, N_gpuse, N_emc, N_host1x}

\* an entry of a directory: a subdirectory with the attribute files it holds,
\* or something that is no directory
DirEntry(name, attrs) == [name |-> name, dir |-> TRUE, attrs |-> attrs]
FileEntry(name) == [name |-> name, dir |-> FALSE, attrs |-> {}]

\* the attribute sets a devfreq entry may hold
DevfreqAttrSets == {{"cur_freq", "available_frequencies"}, {"cur_freq"}, {"available_frequencies"}}

\* what an entry may be: a directory with some attributes, or no directory
EntryKinds ==
    {[dir |-> TRUE, attrs |-> a] : a \in DevfreqAttrSets} \cup {[dir |-> FALSE, attrs |-> {}]}

\* a directory holding the entries named names[i], of kind kinds[i], enumerated
\* in this order
DirOf(names, kinds) ==
    [exists |-> TRUE,
     entries |-> [i \in 1..Len(names) |->
                    [name |-> names[i], dir |-> kinds[i].dir, attrs |-> kinds[i].attrs]]]

\* no two entries of a directory have the same name
DistinctNames(names) ==
    \A i, j \in 1..Len(names) : i # j => names[i] # names[j]

\* the first of a set of indices of a listing, 0 when the set is empty: where
\* a loop over the listing stops
FirstIndex(hits) ==
    IF hits = {} THEN 0 ELSE CHOOSE i \in hits : \A j \in hits : i <= j

\* fs::exists(d + "/" + attr) for an entry d
exists_attr(d, attr) == attr \in d.attrs

\* list_dirs(root) (glob_dirs in dvfs_probe.cpp): the directories among the
\* entries, in enumeration order; nothing when the root does not exist
list_dirs(root) ==
    IF ~root.exists THEN <<>> ELSE SelectSeq(root.entries, LAMBDA e : e.dir)

\* the path of entry d of a root
PathOf(rootpath, d) == [some |-> TRUE, val |-> [root |-> rootpath, name |-> d.name]]

-----------------------------------------------------------------------------
(* Discovery *)

DEVFREQ == "/sys/class/devfreq"

\* is_blacklisted without its last keyword
is_blacklisted_without_se(name) ==
    \/ Contains(name, K_nvjpg)
    \/ Contains(name, K_nvenc)
    \/ Contains(name, K_nvdec)
    \/ Contains(name, K_vic)

\* the lambda is_blacklisted of find_gpu_devfreq_dir
is_blacklisted(name) ==
    \/ Contains(name, K_nvjpg)
    \/ Contains(name, K_nvenc)
    \/ Contains(name, K_nvdec)
    \/ Contains(name, K_vic)
    \/ Contains(name, K_se)

\* the test of the first loop: a GPU-like name with both attributes
gpu_pass1(d) ==
    /\ ~is_blacklisted(d.name)
    /\ Contains(d.name, K_ga10b) \/ Contains(d.name, K_gpu)
    /\ exists_attr(d, "cur_freq") /\ exists_attr(d, "available_frequencies")

\* the test of the second loop: any name with both attributes
gpu_pass2(d) ==
    /\ ~is_blacklisted(d.name)
    /\ exists_attr(d, "cur_freq") /\ exists_attr(d, "available_frequencies")

\* find_gpu_devfreq_dir with the first loop left out
find_gpu_devfreq_dir_one_pass(root) ==
    LET ds == list_dirs(root)
        j  == FirstIndex({k \in 1..Len(ds) : gpu_pass2(ds[k])})
    IN  IF ~root.exists \/ j = 0 THEN NoPath ELSE PathOf(DEVFREQ, ds[j])

\* find_gpu_devfreq_dir with the second loop left out
find_gpu_devfreq_dir_no_fallback(root) ==
    LET ds == list_dirs(root)
        i  == FirstIndex({k \in 1..Len(ds) : gpu_pass1(ds[k])})
    IN  IF ~root.exists \/ i = 0 THEN NoPath ELSE PathOf(DEVFREQ, ds[i])

\* find_gpu_devfreq_dir (the same in dvfs_tool.cpp and dvfs_probe.cpp): the first
\* match of the first loop, else the first match of the second loop
find_gpu_devfreq_dir(root) ==
    LET ds == list_dirs(root)
        i  == FirstIndex({k \in 1..Len(ds) : gpu_pass1(ds[k])})
        j  == FirstIndex({k \in 1..Len(ds) : gpu_pass2(ds[k])})
    IN  IF ~root.exists THEN NoPath
        ELSE IF i # 0 THEN PathOf(DEVFREQ, ds[i])
        ELSE IF j # 0 THEN PathOf(DEVFREQ, ds[j])
        ELSE NoPath

InitGpu ==
    /\ \/ fs = NoFs
       \/ \E k \in 0..MaxEntries :
            \E names \in [1..k -> DevfreqNames], kinds \in [1..k -> EntryKinds] :
               /\ DistinctNames(names)
               /\ fs = [NoFs EXCEPT !.devfreq = DirOf(names, kinds)]
    /\ d_pc = "call"
    /\ d_fn = ""
    /\ d_res = NoPath
    /\ d_arg = <<>>
    /\ d_reads = <<>>
    /\ IdleRead /\ IdleWrite /\ IdleCmd /\ IdleLog

\* one call of find_gpu_devfreq_dir
DiscoverGpu ==
    /\ d_pc = "call" \/ (d_pc = "done" /\ d_fn = "find_gpu_devfreq_dir")
    /\ d_res' = find_gpu_devfreq_dir(fs.devfreq)
    /\ d_fn' = "find_gpu_devfreq_dir"
    /\ d_pc' = IF d_pc = "call" THEN "done" ELSE "again"
    /\ UNCHANGED <<d_arg, d_reads>>
    /\ UNCHANGED fs
    /\ UNCHANGED notDisc

NextGpu == DiscoverGpu

SpecGpu == InitGpu /\ [][NextGpu]_vars

\* the keywords the claims name
ExcludedKeywords == {K_nvjpg, K_nvenc, K_nvdec, K_vic, K_se}
GpuKeywords == {K_ga10b, K_gpu}

\* the three kinds of entry of the claims
IsExcludedEntry(e) == \E k \in ExcludedKeywords : Contains(e.name, k)
IsGpuEntry(e) == ~IsExcludedEntry(e) /\ \E k \in GpuKeywords : Contains(e.name, k)
IsNeutralEntry(e) == ~IsExcludedEntry(e) /\ ~\E k \in GpuKeywords : Contains(e.name, k)
HasBothAttrs(e) == e.dir /\ {"cur_freq", "available_frequencies"} \subseteq e.attrs

\* the indices of the entries of /sys/class/devfreq of each kind
ExcludedEntries == {i \in 1..Len(fs.devfreq.entries) : IsExcludedEntry(fs.devfreq.entries[i])}
GpuEntries == {i \in 1..Len(fs.devfreq.entries) : IsGpuEntry(fs.devfreq.entries[i])}
NeutralEntries == {i \in 1..Len(fs.devfreq.entries) : IsNeutralEntry(fs.devfreq.entries[i])}

\* C5: in every enumeration order of a devfreq root holding one excluded
\* entry, one GPU-keyword entry and one neutral entry, each with cur_freq and
\* available_frequencies, find_gpu_devfreq_dir returns the GPU-keyword entry.
C5_Pass1Preference ==
    (/\ d_pc = "done"
     /\ fs.devfreq.exists
     /\ Len(fs.devfreq.entries) = 3
     /\ Cardinality(ExcludedEntries) = 1
     /\ Cardinality(GpuEntries) = 1
     /\ Cardinality(NeutralEntries) = 1
     /\ \A i \in 1..3 : HasBothAttrs(fs.devfreq.entries[i]))
        => \E i \in GpuEntries :
              d_res = [some |-> TRUE,
                       val |-> [root |-> "/sys/class/devfreq",
                                name |-> fs.devfreq.entries[i].name]]

\* the neutral entry is enumerated first, the GPU entry last, and the GPU entry
\* is what came back
C5_Witness ==
    /\ d_pc = "done"
    /\ fs.devfreq.exists
    /\ Len(fs.devfreq.entries) = 3
    /\ fs.devfreq.entries[1] = DirEntry(N_emc, {"cur_freq", "available_frequencies"})
    /\ fs.devfreq.entries[2] = DirEntry(N_15vic, {"cur_freq", "available_frequencies"})
    /\ fs.devfreq.entries[3] = DirEntry(N_17gpu, {"cur_freq", "available_frequencies"})
    /\ d_res = [some |-> TRUE, val |-> [root |-> "/sys/class/devfreq", name |-> N_17gpu]]

\* C6: when the devfreq root holds no GPU-keyword entry and no excluded entry
\* and holds a neutral entry with cur_freq and available_frequencies,
\* find_gpu_devfreq_dir returns the first such entry in enumeration order, not
\* NotFound.
C6_Pass2Fallback ==
    (/\ d_pc = "done"
     /\ fs.devfreq.exists
     /\ ExcludedEntries = {}
     /\ GpuEntries = {}
     /\ \E i \in NeutralEntries : HasBothAttrs(fs.devfreq.entries[i]))
        => \E i \in NeutralEntries :
              /\ HasBothAttrs(fs.devfreq.entries[i])
              /\ \A j \in 1..(i - 1) : ~HasBothAttrs(fs.devfreq.entries[j])
              /\ d_res = [some |-> TRUE,
                          val |-> [root |-> "/sys/class/devfreq",
                                   name |-> fs.devfreq.entries[i].name]]

\* two neutral entries with both attributes: the one enumerated first came back
C6_Witness ==
    /\ d_pc = "done"
    /\ fs.devfreq.exists
    /\ Len(fs.devfreq.entries) = 2
    /\ fs.devfreq.entries[1] = DirEntry(N_host1x, {"cur_freq", "available_frequencies"})
    /\ fs.devfreq.entries[2] = DirEntry(N_emc, {"cur_freq", "available_frequencies"})
    /\ d_res = [some |-> TRUE, val |-> [root |-> "/sys/class/devfreq", name |-> N_host1x]]

-----------------------------------------------------------------------------
(* write_text *)

\* std::string v = val; if (v.empty() || v.back() != '\n') v.push_back('\n');
terminated(val) ==
    IF val = <<>> \/ val[Len(val)] # NL THEN Append(val, NL) ELSE val

\* dvfs_tool.cpp: open(O_WRONLY); append a newline unless the value ends with
\* one; write; true iff the whole of it was written.  n is what ::write
\* returned.
write_text(val, open_ok, n) ==
    IF ~open_ok THEN [bytes |-> NullOpt, ret |-> FALSE]
    ELSE [bytes |-> Some(terminated(val)), ret |-> (n = Len(terminated(val)))]

\* dvfs_set.cpp: std::ofstream ofs(path); ofs << val; the value goes out as it
\* is, and the result is the stream's state
write_text_set(val, open_ok, good) ==
    IF ~open_ok THEN [bytes |-> NullOpt, ret |-> FALSE]
    ELSE [bytes |-> Some(val), ret |-> good]

InitWrite ==
    /\ w_val \in SeqsUpTo(Chars, MaxLen)
    /\ w_pc = "call"
    /\ w_by = ""
    /\ w_bytes = NullOpt
    /\ w_ret = FALSE
    /\ IdleRead /\ IdleFs /\ IdleDisc /\ IdleCmd /\ IdleLog

\* one call of dvfs_tool's write_text
WriteTextTool ==
    /\ w_pc = "call"
    /\ \E open_ok \in BOOLEAN, n \in -1..(Len(w_val) + 1) :
          LET r == write_text(w_val, open_ok, n)
          IN  w_bytes' = r.bytes /\ w_ret' = r.ret
    /\ w_by' = "dvfs_tool"
    /\ w_pc' = "done"
    /\ UNCHANGED w_val
    /\ UNCHANGED notWrite

\* one call of dvfs_set's write_text
WriteTextSet ==
    /\ w_pc = "call"
    /\ \E open_ok \in BOOLEAN, good \in BOOLEAN :
          LET r == write_text_set(w_val, open_ok, good)
          IN  w_bytes' = r.bytes /\ w_ret' = r.ret
    /\ w_by' = "dvfs_set"
    /\ w_pc' = "done"
    /\ UNCHANGED w_val
    /\ UNCHANGED notWrite

NextWrite == WriteTextTool \/ WriteTextSet

SpecWrite == InitWrite /\ [][NextWrite]_vars

\* C4: for every caller value the bytes write_text hands to the file end with
\* exactly one newline: the value followed by one newline when the value lacks
\* a trailing newline, the value itself when it already ends with one.
C4_EndsWithOneNewline ==
    (w_pc = "done" /\ w_bytes.some)
        => /\ w_bytes.val # <<>> /\ w_bytes.val[Len(w_bytes.val)] = "\n"
           /\ w_bytes.val =
                 IF w_val # <<>> /\ w_val[Len(w_val)] = "\n" THEN w_val
                 ELSE w_val \o <<"\n">>

-----------------------------------------------------------------------------
(* CPU discovery, attribute files, the command line *)

CPUFREQ == "/sys/devices/system/cpu/cpufreq"
CPU0 == "/sys/devices/system/cpu/cpu0"
THERMAL == "/sys/class/thermal"

K_policy  == <<"p", "o", "l", "i", "c", "y">>
N_policy0 == K_policy \o <<"0">>

\* find_cpu_policy_dir of dvfs_tool.cpp: the first policy* directory holding
\* scaling_cur_freq, else cpu0/cpufreq when it holds scaling_cur_freq
find_cpu_policy_dir(f) ==
    LET ds == list_dirs(f.cpufreq)
        i  == FirstIndex({k \in 1..Len(ds) :
                            /\ StartsWith(ds[k].name, K_policy)
                            /\ exists_attr(ds[k], "scaling_cur_freq")})
    IN  IF f.cpufreq.exists /\ i # 0 THEN PathOf(CPUFREQ, ds[i])
        ELSE IF f.cpu0.exists /\ exists_attr(f.cpu0, "scaling_cur_freq")
             THEN PathOf(CPU0, f.cpu0)
        ELSE NoPath

\* the directory a discovered path names
EntryAt(f, p) ==
    IF p.root = CPU0 THEN f.cpu0
    ELSE LET es == IF p.root = CPUFREQ THEN f.cpufreq.entries
                   ELSE IF p.root = THERMAL THEN f.thermal.entries
                   ELSE f.devfreq.entries
         IN  es[CHOOSE i \in 1..Len(es) : es[i].name = p.name]

\* the path dir + "/" + attr
AttrPath(dir, attr) == [dir |-> dir, attr |-> attr]

\* exists(dir + "/" + attr)
exists_path(f, dir, attr) == attr \in EntryAt(f, dir).attrs

\* read_text(dir + "/" + attr): absent when the file is missing or unreadable
read_attr(f, dir, attr) ==
    LET d == EntryAt(f, dir)
    IN  IF attr \in d.attrs /\ d.text[attr].some
        THEN Some(read_text_value(d.text[attr].val))
        ELSE NullOpt

\* v.value_or(dflt)
value_or(v, dflt) == IF v.some THEN v.val ELSE dflt

\* the words of a command line
T_tool    == <<"dvfs_tool">>
T_set     == <<"set">>
T_unlock  == <<"unlock">>
F_cpu_khz == <<"--cpu_khz">>
F_gpu_hz  == <<"--gpu_hz">>
F_apply   == <<"--apply">>
V_1344000 == <<"1344000">>
V_918000000 == <<"918000000">>

\* get_flag: the word after the first occurrence of flag that has a successor
get_flag(av, flag) ==
    LET i == FirstIndex({k \in 1..(Len(av) - 1) : av[k] = flag})
    IN  IF i = 0 THEN NullOpt ELSE Some(av[i + 1])

\* has_flag: flag is one of the words
has_flag(av, flag) == \E k \in 1..Len(av) : av[k] = flag

\* one write_text call of a command, the open succeeding or not, and ::write
\* taking the whole value
do_write(path, val, open_ok) ==
    LET r == write_text(val, open_ok, Len(terminated(val)))
    IN  [path |-> path, val |-> val, bytes |-> r.bytes, ok |-> r.ret]

\* every write of a sequence of write_text calls returned true
all_ok(ws) == \A i \in 1..Len(ws) : ws[i].ok

\* a line under "Will write:": a path with its value, or with <skip>
will_write(path, optval) == [path |-> path, val |-> optval]

-----------------------------------------------------------------------------
(* dvfs_tool set *)

\* cmd_set writing whether or not --apply is given
cmd_set_always_applies(av, f, o) ==
    LET cpu_khz == get_flag(av, F_cpu_khz)
        gpu_hz  == get_flag(av, F_gpu_hz)
        cpu_dir == find_cpu_policy_dir(f)
        gpu_dir == find_gpu_devfreq_dir(f.devfreq)
        will    == <<will_write(AttrPath(cpu_dir.val, "scaling_min_freq"), cpu_khz),
                     will_write(AttrPath(cpu_dir.val, "scaling_max_freq"), cpu_khz),
                     will_write(AttrPath(gpu_dir.val, "min_freq"), gpu_hz),
                     will_write(AttrPath(gpu_dir.val, "max_freq"), gpu_hz)>>
        ws      == [i \in 1..4 |-> do_write(will[i].path, will[i].val.val, o[i])]
    IN  IF ~cpu_khz.some \/ ~gpu_hz.some
        THEN [rc |-> 2, out |-> <<>>, note |-> "set requires --cpu_khz and --gpu_hz", written |-> <<>>]
        ELSE IF ~cpu_dir.some \/ ~gpu_dir.some
        THEN [rc |-> 3, out |-> <<>>, note |-> "Run: dvfs_tool probe", written |-> <<>>]
        ELSE [rc |-> IF all_ok(ws) THEN 0 ELSE 4, out |-> will, note |-> "applied", written |-> ws]

\* cmd_set writing each maximum before its minimum
cmd_set_max_first(av, f, o) ==
    LET cpu_khz == get_flag(av, F_cpu_khz)
        gpu_hz  == get_flag(av, F_gpu_hz)
        apply   == has_flag(av, F_apply)
        cpu_dir == find_cpu_policy_dir(f)
        gpu_dir == find_gpu_devfreq_dir(f.devfreq)
        cpu_min_p == AttrPath(cpu_dir.val, "scaling_min_freq")
        cpu_max_p == AttrPath(cpu_dir.val, "scaling_max_freq")
        gpu_min_p == AttrPath(gpu_dir.val, "min_freq")
        gpu_max_p == AttrPath(gpu_dir.val, "max_freq")
        will    == <<will_write(cpu_min_p, cpu_khz), will_write(cpu_max_p, cpu_khz),
                     will_write(gpu_min_p, gpu_hz), will_write(gpu_max_p, gpu_hz)>>
        ws      == <<do_write(cpu_max_p, cpu_khz.val, o[1]),
                     do_write(cpu_min_p, cpu_khz.val, o[2]),
                     do_write(gpu_max_p, gpu_hz.val, o[3]),
                     do_write(gpu_min_p, gpu_hz.val, o[4])>>
    IN  IF ~cpu_khz.some \/ ~gpu_hz.some
        THEN [rc |-> 2, out |-> <<>>, note |-> "set requires --cpu_khz and --gpu_hz", written |-> <<>>]
        ELSE IF ~cpu_dir.some \/ ~gpu_dir.some
        THEN [rc |-> 3, out |-> <<>>, note |-> "Run: dvfs_tool probe", written |-> <<>>]
        ELSE IF ~apply
        THEN [rc |-> 0, out |-> will, note |-> "dry-run", written |-> <<>>]
        ELSE [rc |-> IF all_ok(ws) THEN 0 ELSE 4, out |-> will, note |-> "applied", written |-> ws]

\* cmd_set: o[i] says whether the open of the i-th write succeeds
cmd_set(av, f, o) ==
    LET cpu_khz == get_flag(av, F_cpu_khz)
        gpu_hz  == get_flag(av, F_gpu_hz)
        apply   == has_flag(av, F_apply)
        cpu_dir == find_cpu_policy_dir(f)
        gpu_dir == find_gpu_devfreq_dir(f.devfreq)
        cpu_min_p == AttrPath(cpu_dir.val, "scaling_min_freq")
        cpu_max_p == AttrPath(cpu_dir.val, "scaling_max_freq")
        gpu_min_p == AttrPath(gpu_dir.val, "min_freq")
        gpu_max_p == AttrPath(gpu_dir.val, "max_freq")
        will    == <<will_write(cpu_min_p, cpu_khz), will_write(cpu_max_p, cpu_khz),
                     will_write(gpu_min_p, gpu_hz), will_write(gpu_max_p, gpu_hz)>>
        ws      == <<do_write(cpu_min_p, cpu_khz.val, o[1]),
                     do_write(cpu_max_p, cpu_khz.val, o[2]),
                     do_write(gpu_min_p, gpu_hz.val, o[3]),
                     do_write(gpu_max_p, gpu_hz.val, o[4])>>
    IN  IF ~cpu_khz.some \/ ~gpu_hz.some
        THEN [rc |-> 2, out |-> <<>>, note |-> "set requires --cpu_khz and --gpu_hz", written |-> <<>>]
        ELSE IF ~cpu_dir.some \/ ~gpu_dir.some
        THEN [rc |-> 3, out |-> <<>>, note |-> "Run: dvfs_tool probe", written |-> <<>>]
        ELSE IF ~apply
        THEN [rc |-> 0, out |-> will, note |-> "dry-run", written |-> <<>>]
        ELSE [rc |-> IF all_ok(ws) THEN 0 ELSE 4, out |-> will, note |-> "applied", written |-> ws]

-----------------------------------------------------------------------------
(* dvfs_tool unlock *)

\* s.find_first_of(" \t"), counted from 1; 0 is npos
find_first_of_blank(s) == FirstIndex({i \in 1..Len(s) : s[i] = SP \/ s[i] = TAB})

\* s.find_last_of(" \t"), counted from 1; 0 is npos
find_last_of_blank(s) ==
    LET hits == {i \in 1..Len(s) : s[i] = SP \/ s[i] = TAB}
    IN  IF hits = {} THEN 0 ELSE CHOOSE i \in hits : \A j \in hits : j <= i

\* the defaults of cmd_unlock
D_gpu_min == <<"306000000">>
D_gpu_max == <<"1020000000">>
D_governor == <<"nvhost_podgov">>

\* gpu_min_default and gpu_max_default as left by the available_frequencies
\* block: the text before the first blank and the text after the last one
af_defaults(af) ==
    IF af.some /\ af.val # <<>>
    THEN LET s == pop_back_ws(af.val)
             first_end == find_first_of_blank(s)
             last_sep  == find_last_of_blank(s)
         IN  [min |-> IF first_end = 0 THEN s ELSE SubSeq(s, 1, first_end - 1),
              max |-> IF last_sep = 0 THEN s ELSE SubSeq(s, last_sep + 1, Len(s))]
    ELSE [min |-> <<>>, max |-> <<>>]

\* cmd_unlock: o[i] says whether the open of the i-th write would succeed
cmd_unlock(av, f, o) ==
    LET apply   == has_flag(av, F_apply)
        cpu_dir == find_cpu_policy_dir(f)
        gpu_dir == find_gpu_devfreq_dir(f.devfreq)
        cmin    == read_attr(f, cpu_dir.val, "cpuinfo_min_freq")
        cmax    == read_attr(f, cpu_dir.val, "cpuinfo_max_freq")
        cpu_min_p == AttrPath(cpu_dir.val, "scaling_min_freq")
        cpu_max_p == AttrPath(cpu_dir.val, "scaling_max_freq")
        gpu_min_p == AttrPath(gpu_dir.val, "min_freq")
        gpu_max_p == AttrPath(gpu_dir.val, "max_freq")
        gov_p     == AttrPath(gpu_dir.val, "governor")
        dflt    == af_defaults(read_attr(f, gpu_dir.val, "available_frequencies"))
        gpu_min_default ==
            IF dflt.min = <<>> THEN value_or(read_attr(f, gpu_dir.val, "min_freq"), D_gpu_min)
            ELSE dflt.min
        gpu_max_default ==
            IF dflt.max = <<>> THEN value_or(read_attr(f, gpu_dir.val, "max_freq"), D_gpu_max)
            ELSE dflt.max
        has_gov == exists_path(f, gpu_dir.val, "governor")
        will    == <<will_write(cpu_min_p, cmin), will_write(cpu_max_p, cmax),
                     will_write(gpu_min_p, Some(gpu_min_default)),
                     will_write(gpu_max_p, Some(gpu_max_default)),
                     will_write(gov_p, IF has_gov THEN Some(D_governor) ELSE NullOpt)>>
        ws      == (IF cmin.some THEN <<do_write(cpu_min_p, cmin.val, o[1])>> ELSE <<>>)
                   \o (IF cmax.some THEN <<do_write(cpu_max_p, cmax.val, o[2])>> ELSE <<>>)
                   \o <<do_write(gpu_min_p, gpu_min_default, o[3]),
                        do_write(gpu_max_p, gpu_max_default, o[4])>>
                   \o (IF has_gov THEN <<do_write(gov_p, D_governor, o[5])>> ELSE <<>>)
    IN  IF ~cpu_dir.some \/ ~gpu_dir.some
        THEN [rc |-> 3, out |-> <<>>, note |-> "Run: dvfs_tool probe", written |-> <<>>]
        ELSE IF ~apply
        THEN [rc |-> 0, out |-> will, note |-> "dry-run", written |-> <<>>]
        ELSE [rc |-> IF all_ok(ws) THEN 0 ELSE 4, out |-> will, note |-> "applied", written |-> ws]

-----------------------------------------------------------------------------
(* One run of dvfs_tool set or dvfs_tool unlock *)

\* what the attribute files of the trees hold
C_cur_khz  == <<"1344000", NL>>
C_cpu_min  == <<"115200", NL>>
C_cpu_max  == <<"2201600", NL>>
C_gpu_cur  == <<"918000000", NL>>
C_gpu_min  == <<"114750000", NL>>
C_gpu_max  == <<"1300500000", NL>>
C_governor == <<"nvhost_podgov", NL>>
C_cpu_gov  == <<"schedutil", NL>>

\* what available_frequencies may hold: a blank-separated list, one frequency,
\* a list with a leading blank, tabs and a trailing blank, nothing but the
\* newline, one frequency per line
AfContents ==
    { <<"306000000", SP, "612000000", SP, "1020000000", NL>>,
      <<"306000000", NL>>,
      <<SP, "306000000", SP, "1020000000", NL>>,
      <<"306000000", TAB, "1020000000", SP, NL>>,
      <<NL>>,
      <<"306000000", NL, "1020000000", NL>> }

\* a readable attribute file, or one whose read fails
AfStates == {Some(c) : c \in AfContents} \cup {NullOpt}

\* the CPU directory of a tree: scaling_cur_freq and the cpuinfo files given
CpuDir(name, cpuinfo) ==
    [exists |-> TRUE, name |-> name, dir |-> TRUE,
     attrs |-> {"scaling_cur_freq"} \cup cpuinfo,
     text |-> [a \in {"scaling_cur_freq"} \cup cpuinfo |->
                 Some(IF a \in {"cpuinfo_min_freq", "scaling_min_freq"} THEN C_cpu_min
                      ELSE IF a \in {"cpuinfo_max_freq", "scaling_max_freq"} THEN C_cpu_max
                      ELSE IF a = "scaling_governor" THEN C_cpu_gov
                      ELSE C_cur_khz)]]

\* the GPU directory of a tree: cur_freq, available_frequencies in state af,
\* and the files of extra
GpuDir(af, extra) ==
    [name |-> N_17gpu, dir |-> TRUE,
     attrs |-> {"cur_freq", "available_frequencies"} \cup extra,
     text |-> [a \in {"cur_freq", "available_frequencies"} \cup extra |->
                 IF a = "available_frequencies" THEN af
                 ELSE Some(IF a = "min_freq" THEN C_gpu_min
                           ELSE IF a = "max_freq" THEN C_gpu_max
                           ELSE IF a = "governor" THEN C_governor
                           ELSE C_gpu_cur)]]

\* the directory of an engine that is no GPU
VicDir ==
    [name |-> N_15vic, dir |-> TRUE, attrs |-> {"cur_freq", "available_frequencies"},
     text |-> [a \in {"cur_freq", "available_frequencies"} |-> Some(C_gpu_cur)]]

\* a tree: the CPU directory under cpufreq ("policy0"), as cpu0/cpufreq ("cpu0")
\* or missing ("none"); the GPU directory after an excluded one ("gpu") or no
\* devfreq at all ("none")
CmdTree(cpu_kind, cpuinfo, gpu_kind, af, extra) ==
    [NoFs EXCEPT
       !.cpufreq = IF cpu_kind = "policy0"
                   THEN [exists |-> TRUE, entries |-> <<CpuDir(N_policy0, cpuinfo)>>]
                   ELSE NoDir,
       !.cpu0    = IF cpu_kind = "cpu0" THEN CpuDir(<<"cpufreq">>, cpuinfo) ELSE NoCpu0,
       !.devfreq = IF gpu_kind = "gpu"
                   THEN [exists |-> TRUE, entries |-> <<VicDir, GpuDir(af, extra)>>]
                   ELSE NoDir]

\* the words that may follow "dvfs_tool set"
SetWords == {F_cpu_khz, F_gpu_hz, F_apply, V_1344000, V_918000000}

\* the words that may follow "dvfs_tool unlock"
UnlockRests == {<<>>, <<F_apply>>, <<V_1344000, F_apply>>, <<V_1344000>>}

\* whole command lines of "dvfs_tool set": both values and --apply, in two
\* orders, and both flags given the same value
SetRests ==
    { <<F_cpu_khz, V_1344000, F_gpu_hz, V_918000000, F_apply>>,
      <<F_apply, F_gpu_hz, V_918000000, F_cpu_khz, V_1344000>>,
      <<F_cpu_khz, V_1344000, F_gpu_hz, V_1344000, F_apply>> }

InitCmd ==
    /\ \/ \E rest \in SetRests :
            \E ck \in {"none", "policy0", "cpu0"}, gk \in {"none", "gpu"} :
               /\ argv = <<T_tool, T_set>> \o rest
               /\ fs = CmdTree(ck, {"cpuinfo_min_freq", "cpuinfo_max_freq"}, gk,
                               Some(<<"306000000", SP, "1020000000", NL>>),
                               {"min_freq", "max_freq", "governor"})
       \/ \E k \in 0..MaxArgs : \E rest \in [1..k -> SetWords] :
            \E ck \in {"none", "policy0"}, gk \in {"none", "gpu"} :
               /\ argv = <<T_tool, T_set>> \o rest
               /\ fs = CmdTree(ck, {"cpuinfo_min_freq", "cpuinfo_max_freq"}, gk,
                               Some(<<"306000000", SP, "1020000000", NL>>),
                               {"min_freq", "max_freq", "governor"})
       \/ \E rest \in UnlockRests :
            \E ck \in {"none", "policy0", "cpu0"}, gk \in {"none", "gpu"},
               cpuinfo \in SUBSET {"cpuinfo_min_freq", "cpuinfo_max_freq"},
               af \in AfStates, extra \in SUBSET {"min_freq", "max_freq", "governor"} :
               /\ argv = <<T_tool, T_unlock>> \o rest
               /\ fs = CmdTree(ck, cpuinfo, gk, af, extra)
    /\ c_pc = "call"
    /\ rc = -1
    /\ out = <<>>
    /\ note = ""
    /\ written = <<>>
    /\ IdleRead /\ IdleWrite /\ IdleDisc /\ IdleLog

\* main dispatches to cmd_set, which runs to its return
CmdSet ==
    /\ c_pc = "call"
    /\ argv[2] = T_set
    /\ \E o \in [1..4 -> BOOLEAN] :
          LET r == cmd_set(argv, fs, o)
          IN  rc' = r.rc /\ out' = r.out /\ note' = r.note /\ written' = r.written
    /\ c_pc' = "done"
    /\ UNCHANGED <<argv, fs>>
    /\ UNCHANGED notCmd

\* main dispatches to cmd_unlock, which runs to its return
CmdUnlock ==
    /\ c_pc = "call"
    /\ argv[2] = T_unlock
    /\ \E o \in [1..5 -> BOOLEAN] :
          LET r == cmd_unlock(argv, fs, o)
          IN  rc' = r.rc /\ out' = r.out /\ note' = r.note /\ written' = r.written
    /\ c_pc' = "done"
    /\ UNCHANGED <<argv, fs>>
    /\ UNCHANGED notCmd

NextCmd == CmdSet \/ CmdUnlock

SpecCmd == InitCmd /\ [][NextCmd]_vars

\* the command line av with --apply added after the subcommand
WithApply(av) == <<av[1], av[2], <<"--apply">>>> \o SubSeq(av, 3, Len(av))

\* the path and value of each write_text call of ws
WritePairs(ws) == [i \in 1..Len(ws) |-> [path |-> ws[i].path, val |-> ws[i].val]]

\* the path and value of each line of "Will write:" that is not a <skip>
AnnouncedPairs(lines) ==
    LET kept == SelectSeq(lines, LAMBDA l : l.val.some)
    IN  [i \in 1..Len(kept) |-> [path |-> kept[i].path, val |-> kept[i].val.val]]

\* the write_text calls the command makes on the tree fs when run with --apply,
\* every open succeeding (ok = TRUE) or failing (ok = FALSE)
WritesIfApplied(ok) ==
    IF argv[2] = <<"set">>
    THEN cmd_set(WithApply(argv), fs, [i \in 1..4 |-> ok]).written
    ELSE cmd_unlock(WithApply(argv), fs, [i \in 1..5 |-> ok]).written

\* C1: cmd_set and cmd_unlock run without --apply call write_text not once,
\* whatever the other words and the tree are, and the writes they print under
\* "Will write:" are the writes the same run makes with --apply.
C1_DryRunWritesNothing ==
    (c_pc = "done" /\ \A i \in 1..Len(argv) : argv[i] # <<"--apply">>)
        => /\ written = <<>>
           /\ \A ok \in BOOLEAN : AnnouncedPairs(out) = WritePairs(WritesIfApplied(ok))

\* a dry run of set with both values given: four writes announced, none made
C1_Witness ==
    /\ c_pc = "done"
    /\ argv = <<T_tool, T_set, F_cpu_khz, V_1344000, F_gpu_hz, V_918000000>>
    /\ note = "dry-run"
    /\ rc = 0
    /\ Len(out) = 4
    /\ written = <<>>

-----------------------------------------------------------------------------
(* Thermal zone and fan discovery *)

K_thermal_zone   == <<"thermal_zone">>
K_cooling_device == <<"cooling_device">>
K_pwm_fan        == <<"pwm-fan">>

\* the keyword lists cmd_log passes to find_thermal_zone_by_keywords
KW_cpu  == << <<"cpu", "-thermal">>, <<"CPU", "-therm">>, <<"cpu">>, <<"CPU">> >>
KW_gpu  == << <<"gpu", "-thermal">>, <<"GPU", "-therm">>, <<"gpu">>, <<"ga10b">>, <<"GPU">> >>
KW_soc0 == << <<"soc0", "-thermal">>, <<"SOC0">>, <<"soc0">> >>
KW_soc1 == << <<"soc1", "-thermal">>, <<"SOC1">>, <<"soc1">> >>
KW_soc2 == << <<"soc2", "-thermal">>, <<"SOC2">>, <<"soc2">> >>
KW_tj   == << <<"tj", "-thermal">>, <<"TJ">>, <<"tj">> >>

\* read_text(e + "/" + attr) for an entry e
read_entry(e, attr) ==
    IF attr \in e.attrs /\ e.text[attr].some
    THEN Some(read_text_value(e.text[attr].val))
    ELSE NullOpt

\* find_thermal_zone_by_keywords with the loops exchanged: the first keyword
\* that some zone matches decides
find_thermal_zone_keyword_first(f, kws) ==
    LET es == f.thermal.entries
        hit == [j \in 1..Len(kws) |->
                  FirstIndex({k \in 1..Len(es) :
                                /\ es[k].dir
                                /\ Contains(es[k].name, K_thermal_zone)
                                /\ read_entry(es[k], "type").some
                                /\ Contains(read_entry(es[k], "type").val, kws[j])})]
        j0  == FirstIndex({j \in 1..Len(kws) : hit[j] # 0})
    IN  IF ~f.thermal.exists \/ j0 = 0 THEN NoPath ELSE PathOf(THERMAL, es[hit[j0]])

\* find_thermal_zone_by_keywords: the first directory of the thermal root
\* whose name holds "thermal_zone" and whose type, when readable, holds one
\* of kws
find_thermal_zone_by_keywords(f, kws) ==
    LET es == f.thermal.entries
        i  == FirstIndex({k \in 1..Len(es) :
                            /\ es[k].dir
                            /\ Contains(es[k].name, K_thermal_zone)
                            /\ read_entry(es[k], "type").some
                            /\ \E j \in 1..Len(kws) :
                                  Contains(read_entry(es[k], "type").val, kws[j])})
    IN  IF ~f.thermal.exists \/ i = 0 THEN NoPath ELSE PathOf(THERMAL, es[i])

\* find_pwm_fan_cooling_device_dir: the first directory of the thermal root
\* named cooling_device* whose type holds "pwm-fan"
find_pwm_fan_cooling_device_dir(f) ==
    LET es == f.thermal.entries
        i  == FirstIndex({k \in 1..Len(es) :
                            /\ es[k].dir
                            /\ StartsWith(es[k].name, K_cooling_device)
                            /\ read_entry(es[k], "type").some
                            /\ Contains(read_entry(es[k], "type").val, K_pwm_fan)})
    IN  IF ~f.thermal.exists \/ i = 0 THEN NoPath ELSE PathOf(THERMAL, es[i])

-----------------------------------------------------------------------------
(* dvfs_tool log: before the loop *)

T_log        == <<"log">>
F_period_ms  == <<"--period_ms">>
F_watch      == <<"--watch">>
F_watch_ms   == <<"--watch_ms">>

Digits == <<"0", "1", "2", "3", "4", "5", "6", "7", "8", "9">>
DigitVal(c) == (CHOOSE i \in 1..10 : Digits[i] = c) - 1

RECURSIVE stoi_digits(_)
stoi_digits(s) ==
    IF s = <<>> THEN 0
    ELSE stoi_digits(SubSeq(s, 1, Len(s) - 1)) * 10 + DigitVal(s[Len(s)])

\* std::stoi of a decimal number with an optional sign
stoi(s) == IF s[1] = "-" THEN 0 - stoi_digits(Tail(s)) ELSE stoi_digits(s)

\* period_ms of cmd_log with only the negative values replaced
period_of_keeps_zero(av) ==
    LET p == get_flag(av, F_period_ms)
        v == IF p.some THEN stoi(p.val) ELSE 100
    IN  IF v < 0 THEN 100 ELSE v

\* period_ms of cmd_log: 100 unless --period_ms gives a positive number
period_of(av) ==
    LET p == get_flag(av, F_period_ms)
        v == IF p.some THEN stoi(p.val) ELSE 100
    IN  IF v <= 0 THEN 100 ELSE v

\* watch_ms of cmd_log: 200 unless --watch_ms gives a positive number
watch_ms_of(av) ==
    LET w == get_flag(av, F_watch_ms)
        v == IF w.some THEN stoi(w.val) ELSE 200
    IN  IF v <= 0 THEN 200 ELSE v

\* what cmd_log discovers before the loop
discover(f) ==
    [cpu_dir |-> find_cpu_policy_dir(f),
     gpu_dir |-> find_gpu_devfreq_dir(f.devfreq),
     fan_cd  |-> find_pwm_fan_cooling_device_dir(f),
     has_fan_pwm |-> f.pwm1.exists,
     tz_cpu  |-> find_thermal_zone_by_keywords(f, KW_cpu),
     tz_gpu  |-> find_thermal_zone_by_keywords(f, KW_gpu),
     tz_soc0 |-> find_thermal_zone_by_keywords(f, KW_soc0),
     tz_soc1 |-> find_thermal_zone_by_keywords(f, KW_soc1),
     tz_soc2 |-> find_thermal_zone_by_keywords(f, KW_soc2),
     tz_tj   |-> find_thermal_zone_by_keywords(f, KW_tj)]

\* the header line of the sink
Header ==
    <<"ts_ns", "dt_ns", "cpu_khz", "cpu_min_khz", "cpu_max_khz", "cpu_governor",
      "gpu_hz", "gpu_min_hz", "gpu_max_hz", "gpu_governor",
      "fan_cur_state", "fan_max_state", "fan_pwm",
      "temp_cpu_mC", "temp_gpu_mC", "temp_soc0_mC", "temp_soc1_mC", "temp_soc2_mC",
      "temp_tj_mC">>

\* the column of the header named h
Col(h) == CHOOSE i \in 1..Len(Header) : Header[i] = h

\* the rows of the sink: its lines after the header
Rows == SubSeq(ofs.lines, 2, Len(ofs.lines))

\* nanoseconds in a millisecond
NsPerMs == 1000000

\* now_ns()
now_ns == now * NsPerMs

-----------------------------------------------------------------------------
(* dvfs_tool log: one tick *)

\* the read of the tick that fills column h: absent when the role the
\* attribute belongs to was not found and when the read fails (h in bad)
sample_one(f, r, bad, h) ==
    IF h \in bad THEN NullOpt
    ELSE CASE h = "cpu_khz"       -> read_attr(f, r.cpu_dir.val, "scaling_cur_freq")
           [] h = "cpu_min_khz"   -> read_attr(f, r.cpu_dir.val, "scaling_min_freq")
           [] h = "cpu_max_khz"   -> read_attr(f, r.cpu_dir.val, "scaling_max_freq")
           [] h = "cpu_governor"  -> read_attr(f, r.cpu_dir.val, "scaling_governor")
           [] h = "gpu_hz"        -> read_attr(f, r.gpu_dir.val, "cur_freq")
           [] h = "gpu_min_hz"    -> read_attr(f, r.gpu_dir.val, "min_freq")
           [] h = "gpu_max_hz"    -> read_attr(f, r.gpu_dir.val, "max_freq")
           [] h = "gpu_governor"  -> read_attr(f, r.gpu_dir.val, "governor")
           [] h = "fan_cur_state" ->
                IF r.fan_cd.some THEN read_attr(f, r.fan_cd.val, "cur_state") ELSE NullOpt
           [] h = "fan_max_state" ->
                IF r.fan_cd.some THEN read_attr(f, r.fan_cd.val, "max_state") ELSE NullOpt
           [] h = "fan_pwm"       ->
                IF r.has_fan_pwm
                THEN (IF f.pwm1.text.some THEN Some(read_text_value(f.pwm1.text.val))
                      ELSE NullOpt)
                ELSE NullOpt
           [] h = "temp_cpu_mC"   ->
                IF r.tz_cpu.some THEN read_attr(f, r.tz_cpu.val, "temp") ELSE NullOpt
           [] h = "temp_gpu_mC"   ->
                IF r.tz_gpu.some THEN read_attr(f, r.tz_gpu.val, "temp") ELSE NullOpt
           [] h = "temp_soc0_mC"  ->
                IF r.tz_soc0.some THEN read_attr(f, r.tz_soc0.val, "temp") ELSE NullOpt
           [] h = "temp_soc1_mC"  ->
                IF r.tz_soc1.some THEN read_attr(f, r.tz_soc1.val, "temp") ELSE NullOpt
           [] h = "temp_soc2_mC"  ->
                IF r.tz_soc2.some THEN read_attr(f, r.tz_soc2.val, "temp") ELSE NullOpt
           [] h = "temp_tj_mC"    ->
                IF r.tz_tj.some THEN read_attr(f, r.tz_tj.val, "temp") ELSE NullOpt

\* whether the tick calls read_text for column h: always for the CPU and GPU
\* attributes, for the others when what guards the read was found
is_read(r, h) ==
    CASE h \in {"ts_ns", "dt_ns"} -> FALSE
      [] h \in {"fan_cur_state", "fan_max_state"} -> r.fan_cd.some
      [] h = "fan_pwm"      -> r.has_fan_pwm
      [] h = "temp_cpu_mC"  -> r.tz_cpu.some
      [] h = "temp_gpu_mC"  -> r.tz_gpu.some
      [] h = "temp_soc0_mC" -> r.tz_soc0.some
      [] h = "temp_soc1_mC" -> r.tz_soc1.some
      [] h = "temp_soc2_mC" -> r.tz_soc2.some
      [] h = "temp_tj_mC"   -> r.tz_tj.some
      [] OTHER -> TRUE

\* the columns the tick calls read_text for, in the order of the calls
reads_of(r) == SelectSeq(Header, LAMBDA h : is_read(r, h))

\* the seventeen reads of a tick, by column (columns 1 and 2 hold no read)
sample(f, r, bad) ==
    [i \in 1..Len(Header) |-> IF i <= 2 THEN NullOpt ELSE sample_one(f, r, bad, Header[i])]

\* a row that leaves out the fields whose value is absent
row_of_dropping_absent(t, d, sn) ==
    <<t, d>> \o [i \in 1..Len(SelectSeq(sn, LAMBDA v : v.some)) |->
                   SelectSeq(sn, LAMBDA v : v.some)[i].val]

\* the row of a tick: ts, dt, then each value read or nothing where it is absent
row_of(t, d, sn) ==
    [i \in 1..Len(Header) |->
        IF i = 1 THEN t ELSE IF i = 2 THEN d
        ELSE IF sn[i].some THEN sn[i].val ELSE <<>>]

-----------------------------------------------------------------------------
(* One run of dvfs_tool log *)

\* a cooling device and a thermal zone of /sys/class/thermal
CoolingDev(n, type) ==
    [name |-> K_cooling_device \o <<n>>, dir |-> TRUE,
     attrs |-> {"type", "cur_state", "max_state"},
     text |-> [a \in {"type", "cur_state", "max_state"} |->
                 Some(IF a = "type" THEN type \o <<NL>>
                      ELSE IF a = "cur_state" THEN <<"2", NL>>
                      ELSE <<"5", NL>>)]]
Zone(n, type) ==
    [name |-> K_thermal_zone \o <<n>>, dir |-> TRUE,
     attrs |-> {"type", "temp"},
     text |-> [a \in {"type", "temp"} |->
                 Some(IF a = "type" THEN type \o <<NL>> ELSE <<"4", n, "500", NL>>)]]

\* the thermal root of an Orin: the fan and four zones; one where the fan is
\* no cooling device and only one zone exists; none
ThermalFull ==
    [exists |-> TRUE,
     entries |-> <<CoolingDev("0", K_pwm_fan), Zone("0", <<"cpu", "-thermal">>),
                   Zone("1", <<"gpu", "-thermal">>), Zone("2", <<"soc0", "-thermal">>),
                   Zone("3", <<"tj", "-thermal">>)>>]
ThermalNoFan ==
    [exists |-> TRUE,
     entries |-> <<CoolingDev("0", <<"cpu", "-hot">>), Zone("0", <<"tj", "-thermal">>)>>]
ThermalRoots == {NoDir, ThermalFull, ThermalNoFan}

\* the file /sys/devices/platform/pwm-fan/hwmon/hwmon1/pwm1
Pwm1 == [exists |-> TRUE, text |-> Some(<<"128", NL>>)]

\* a tree for cmd_log
LogTree(cpu_kind, gpu_kind, th, pw) ==
    [CmdTree(cpu_kind, {"scaling_min_freq", "scaling_max_freq", "scaling_governor"},
             gpu_kind, Some(<<"306000000", SP, "1020000000", NL>>),
             {"min_freq", "max_freq", "governor"})
       EXCEPT !.thermal = th, !.pwm1 = pw]

LogTrees ==
    {LogTree("policy0", "gpu", th, pw) : th \in ThermalRoots, pw \in {NoFile, Pwm1}}
    \cup {LogTree("none", "gpu", ThermalFull, Pwm1), LogTree("policy0", "none", ThermalFull, Pwm1)}

\* the words that may follow "dvfs_tool log"
LogRests ==
    { <<>>,
      <<F_watch>>,
      <<F_period_ms, <<"2">>>>,
      <<F_watch, F_watch_ms, <<"3">>, F_period_ms, <<"1">>>>,
      <<F_period_ms, <<"-", "5">>, F_watch_ms, <<"0">>, F_watch>> }

\* what the clock may show when cmd_log starts, and how long the reads of a
\* tick may take, in milliseconds
StartTimes == {0, 7}
Latencies == {0, 3}

\* the attributes whose reads may fail in a run
FlakySets == {{}, {"cpu_khz", "fan_pwm", "temp_cpu_mC"}}

InitLog ==
    /\ \E rest \in LogRests : argv = <<T_tool, T_log>> \o rest
    /\ fs \in LogTrees
    /\ now \in StartTimes
    /\ flaky \in FlakySets
    /\ c_pc = "call"
    /\ rc = -1
    /\ out = <<>>
    /\ note = ""
    /\ written = <<>>
    /\ LogNotBegun
    /\ IdleRead /\ IdleWrite /\ IdleDisc

\* where the loop of cmd_log can stand
LoopPcs == {"check", "stamp", "sample", "row", "watch", "count", "sleep"}

\* the handler of SIGINT
on_sigint ==
    /\ c_pc \in LoopPcs
    /\ g_stop' = 1
    /\ stopped_at' = IF g_stop = 0 THEN [pc |-> c_pc, rows |-> Len(Rows)] ELSE stopped_at
    /\ UNCHANGED <<argv, fs, c_pc, rc, note, envVars, cfgVars, ofs, loopVars>>
    /\ UNCHANGED notLog

\* a cmd_log that goes on to the loop when the sink could not be opened
LogStart_ignores_open_failure ==
    /\ c_pc = "call"
    /\ argv[2] = T_log
    /\ period_ms' = period_of(argv)
    /\ watch_mode' = has_flag(argv, F_watch)
    /\ watch_ms' = watch_ms_of(argv)
    /\ roles' = discover(fs)
    /\ IF ~roles'.cpu_dir.some \/ ~roles'.gpu_dir.some
       THEN /\ rc' = 3 /\ note' = "Run: dvfs_tool probe" /\ c_pc' = "done"
            /\ UNCHANGED <<ofs, next, loop_start>>
       ELSE \E open_ok \in BOOLEAN :
              /\ ofs' = IF open_ok THEN [open |-> TRUE, lines |-> <<Header>>, flushed |-> 1]
                        ELSE ofs
              /\ next' = now
              /\ loop_start' = now
              /\ c_pc' = "check"
              /\ UNCHANGED <<rc, note>>
    /\ UNCHANGED <<argv, fs, g_stop, envVars, stopped_at>>
    /\ UNCHANGED <<line_cnt, prev_ts, last_watch_ns, watch_initialized, ts, dt, snap, renders, reads>>
    /\ UNCHANGED notLog

\* a cmd_log that opens the sink before it looks at what discovery found
LogStart_opens_sink_first ==
    /\ c_pc = "call"
    /\ argv[2] = T_log
    /\ period_ms' = period_of(argv)
    /\ watch_mode' = has_flag(argv, F_watch)
    /\ watch_ms' = watch_ms_of(argv)
    /\ roles' = discover(fs)
    /\ \E open_ok \in BOOLEAN :
          IF ~open_ok
          THEN /\ rc' = 1 /\ note' = "Failed to open" /\ c_pc' = "done"
               /\ UNCHANGED <<ofs, next, loop_start>>
          ELSE IF ~roles'.cpu_dir.some \/ ~roles'.gpu_dir.some
          THEN /\ rc' = 3 /\ note' = "Run: dvfs_tool probe" /\ c_pc' = "done"
               /\ ofs' = [open |-> TRUE, lines |-> <<>>, flushed |-> 0]
               /\ UNCHANGED <<next, loop_start>>
          ELSE /\ ofs' = [open |-> TRUE, lines |-> <<Header>>, flushed |-> 1]
               /\ next' = now
               /\ loop_start' = now
               /\ c_pc' = "check"
               /\ UNCHANGED <<rc, note>>
    /\ UNCHANGED <<argv, fs, g_stop, envVars, stopped_at>>
    /\ UNCHANGED <<line_cnt, prev_ts, last_watch_ns, watch_initialized, ts, dt, snap, renders, reads>>
    /\ UNCHANGED notLog

\* cmd_log up to the loop: the flags, discovery, the sink and its header
LogStart ==
    /\ c_pc = "call"
    /\ argv[2] = T_log
    /\ period_ms' = period_of(argv)
    /\ watch_mode' = has_flag(argv, F_watch)
    /\ watch_ms' = watch_ms_of(argv)
    /\ roles' = discover(fs)
    /\ IF ~roles'.cpu_dir.some \/ ~roles'.gpu_dir.some
       THEN /\ rc' = 3 /\ note' = "Run: dvfs_tool probe" /\ c_pc' = "done"
            /\ UNCHANGED <<ofs, next, loop_start>>
       ELSE \E open_ok \in BOOLEAN :
              IF ~open_ok
              THEN /\ rc' = 1 /\ note' = "Failed to open" /\ c_pc' = "done"
                   /\ UNCHANGED <<ofs, next, loop_start>>
              ELSE /\ ofs' = [open |-> TRUE, lines |-> <<Header>>, flushed |-> 1]
                   /\ next' = now
                   /\ loop_start' = now
                   /\ c_pc' = "check"
                   /\ UNCHANGED <<rc, note>>
    /\ UNCHANGED <<argv, fs, g_stop, envVars, stopped_at>>
    /\ UNCHANGED <<line_cnt, prev_ts, last_watch_ns, watch_initialized, ts, dt, snap, renders, reads>>
    /\ UNCHANGED notLog

\* a loop that begins a tick whatever the flag says
LogEnterTick_ignores_stop ==
    /\ c_pc = "check"
    /\ line_cnt < MaxTicks
    /\ next' = next + period_ms
    /\ c_pc' = "stamp"
    /\ UNCHANGED <<argv, fs, rc, note, g_stop, envVars, cfgVars, ofs, stopped_at>>
    /\ UNCHANGED <<line_cnt, prev_ts, last_watch_ns, watch_initialized, ts, dt, snap, renders, reads, loop_start>>
    /\ UNCHANGED notLog

\* a loop whose schedule is relative: it sleeps a period from the end of the
\* reads of the tick before
LogEnterTick_relative_sleep ==
    /\ c_pc = "check"
    /\ g_stop = 0
    /\ line_cnt < MaxTicks
    /\ next' = now + period_ms
    /\ c_pc' = "stamp"
    /\ UNCHANGED <<argv, fs, rc, note, g_stop, envVars, cfgVars, ofs, stopped_at>>
    /\ UNCHANGED <<line_cnt, prev_ts, last_watch_ns, watch_initialized, ts, dt, snap, renders, reads, loop_start>>
    /\ UNCHANGED notLog

\* while (!g_stop) holds: the tick begins, next += period
LogEnterTick ==
    /\ c_pc = "check"
    /\ g_stop = 0
    /\ line_cnt < MaxTicks
    /\ next' = next + period_ms
    /\ c_pc' = "stamp"
    /\ UNCHANGED <<argv, fs, rc, note, g_stop, envVars, cfgVars, ofs, stopped_at>>
    /\ UNCHANGED <<line_cnt, prev_ts, last_watch_ns, watch_initialized, ts, dt, snap, renders, reads, loop_start>>
    /\ UNCHANGED notLog

\* a return that leaves the rows since the last tenth unflushed
LogExit_without_flush ==
    /\ c_pc = "check"
    /\ g_stop # 0
    /\ ofs' = ofs
    /\ note' = "Stopped."
    /\ rc' = 0
    /\ c_pc' = "done"
    /\ UNCHANGED <<argv, fs, g_stop, envVars, cfgVars, loopVars, stopped_at>>
    /\ UNCHANGED notLog

\* while (!g_stop) fails: the last flush, "Stopped.", return 0
LogExit ==
    /\ c_pc = "check"
    /\ g_stop # 0
    /\ ofs' = [ofs EXCEPT !.flushed = Len(ofs.lines)]
    /\ note' = "Stopped."
    /\ rc' = 0
    /\ c_pc' = "done"
    /\ UNCHANGED <<argv, fs, g_stop, envVars, cfgVars, loopVars, stopped_at>>
    /\ UNCHANGED notLog

\* ts, dt and prev_ts of the tick
LogStamp ==
    /\ c_pc = "stamp"
    /\ ts' = now_ns
    /\ dt' = IF prev_ts = 0 THEN 0 ELSE now_ns - prev_ts
    /\ prev_ts' = now_ns
    /\ c_pc' = "sample"
    /\ UNCHANGED <<argv, fs, rc, note, g_stop, envVars, cfgVars, ofs, stopped_at>>
    /\ UNCHANGED <<next, line_cnt, last_watch_ns, watch_initialized, snap, renders, reads, loop_start>>
    /\ UNCHANGED notLog

\* a tick that ends the run when none of its reads returned a value
LogSample_aborts_when_all_fail ==
    /\ c_pc = "sample"
    /\ \E bad \in {{}, flaky}, lat \in Latencies :
          /\ snap' = sample(fs, roles, bad)
          /\ now' = now + lat
    /\ reads' = reads_of(roles)
    /\ c_pc' = IF \A i \in 1..Len(snap') : ~snap'[i].some THEN "done" ELSE "row"
    /\ UNCHANGED <<argv, fs, rc, note, g_stop, flaky, cfgVars, ofs, stopped_at>>
    /\ UNCHANGED <<next, line_cnt, prev_ts, last_watch_ns, watch_initialized, ts, dt, renders, loop_start>>
    /\ UNCHANGED notLog

\* the reads of the tick: those of bad fail, and together they take lat
LogSample ==
    /\ c_pc = "sample"
    /\ \E bad \in {{}, flaky}, lat \in Latencies :
          /\ snap' = sample(fs, roles, bad)
          /\ now' = now + lat
    /\ reads' = reads_of(roles)
    /\ c_pc' = "row"
    /\ UNCHANGED <<argv, fs, rc, note, g_stop, flaky, cfgVars, ofs, stopped_at>>
    /\ UNCHANGED <<next, line_cnt, prev_ts, last_watch_ns, watch_initialized, ts, dt, renders, loop_start>>
    /\ UNCHANGED notLog

\* a tick that gives up before its row when the flag is set
LogRow_abandoned_on_stop ==
    /\ c_pc = "row"
    /\ ofs' = IF g_stop # 0 THEN ofs ELSE [ofs EXCEPT !.lines = Append(@, row_of(ts, dt, snap))]
    /\ c_pc' = IF g_stop # 0 THEN "check" ELSE "watch"
    /\ UNCHANGED <<argv, fs, rc, note, g_stop, envVars, cfgVars, loopVars, stopped_at>>
    /\ UNCHANGED notLog

\* the row goes to the sink
LogRow ==
    /\ c_pc = "row"
    /\ ofs' = [ofs EXCEPT !.lines = Append(@, row_of(ts, dt, snap))]
    /\ c_pc' = "watch"
    /\ UNCHANGED <<argv, fs, rc, note, g_stop, envVars, cfgVars, loopVars, stopped_at>>
    /\ UNCHANGED notLog

\* the throttled render
LogWatch ==
    /\ c_pc = "watch"
    /\ IF watch_mode /\ (last_watch_ns = 0 \/ ts - last_watch_ns >= watch_ms * NsPerMs)
       THEN /\ last_watch_ns' = ts
            /\ renders' = Append(renders, ts)
            /\ watch_initialized' = TRUE
       ELSE UNCHANGED <<last_watch_ns, renders, watch_initialized>>
    /\ c_pc' = "count"
    /\ UNCHANGED <<argv, fs, rc, note, g_stop, envVars, cfgVars, ofs, stopped_at>>
    /\ UNCHANGED <<next, line_cnt, prev_ts, ts, dt, snap, reads, loop_start>>
    /\ UNCHANGED notLog

\* a count that flushes after every fifth row
LogCount_flushes_every_fifth ==
    /\ c_pc = "count"
    /\ line_cnt' = line_cnt + 1
    /\ ofs' = IF line_cnt' % 5 = 0 THEN [ofs EXCEPT !.flushed = Len(ofs.lines)] ELSE ofs
    /\ c_pc' = "sleep"
    /\ UNCHANGED <<argv, fs, rc, note, g_stop, envVars, cfgVars, stopped_at>>
    /\ UNCHANGED <<next, prev_ts, last_watch_ns, watch_initialized, ts, dt, snap, renders, reads, loop_start>>
    /\ UNCHANGED notLog

\* if (++line_cnt % 10 == 0) ofs.flush()
LogCount ==
    /\ c_pc = "count"
    /\ line_cnt' = line_cnt + 1
    /\ ofs' = IF line_cnt' % 10 = 0 THEN [ofs EXCEPT !.flushed = Len(ofs.lines)] ELSE ofs
    /\ c_pc' = "sleep"
    /\ UNCHANGED <<argv, fs, rc, note, g_stop, envVars, cfgVars, stopped_at>>
    /\ UNCHANGED <<next, prev_ts, last_watch_ns, watch_initialized, ts, dt, snap, renders, reads, loop_start>>
    /\ UNCHANGED notLog

\* a sleep that never waits
LogSleep_returns_at_once ==
    /\ c_pc = "sleep"
    /\ now' = now
    /\ c_pc' = "check"
    /\ UNCHANGED <<argv, fs, rc, note, g_stop, flaky, cfgVars, ofs, loopVars, stopped_at>>
    /\ UNCHANGED notLog

\* sleep_until(next): returns at next, or at once when next has passed
LogSleep ==
    /\ c_pc = "sleep"
    /\ now' = IF now < next THEN next ELSE now
    /\ c_pc' = "check"
    /\ UNCHANGED <<argv, fs, rc, note, g_stop, flaky, cfgVars, ofs, loopVars, stopped_at>>
    /\ UNCHANGED notLog

\* the steps of cmd_log itself
LogProgram ==
    \/ LogStart
    \/ LogEnterTick
    \/ LogExit
    \/ LogStamp
    \/ LogSample
    \/ LogRow
    \/ LogWatch
    \/ LogCount
    \/ LogSleep

NextLog == LogProgram \/ on_sigint

SpecLog == InitLog /\ [][NextLog]_vars

\* the runs of InitLog on an Orin tree, on a tree without thermal root and
\* pwm1, and on a tree without CPU directory, with and without --watch
InitLogFair ==
    /\ InitLog
    /\ fs \in {LogTree("policy0", "gpu", ThermalFull, Pwm1),
               LogTree("policy0", "gpu", NoDir, NoFile),
               LogTree("none", "gpu", ThermalFull, Pwm1)}
    /\ argv \in {<<T_tool, T_log>>,
                 <<T_tool, T_log, F_watch, F_watch_ms, <<"3">>, F_period_ms, <<"1">>>>}
    /\ now = 7

\* the steps of the program are taken as long as one can be: every read and
\* every sleep_until returns
SpecLogFair == InitLogFair /\ [][NextLog]_vars /\ WF_vars(LogProgram)

-----------------------------------------------------------------------------
(* The rows of cmd_log *)

FanCols == {Col("fan_cur_state"), Col("fan_max_state"), Col("fan_pwm")}

\* C7: when fan discovery returned NotFound, the tick still appends its row,
\* the three fan fields of the row are empty and every other field holds the
\* value read for it in the tick (checked right after the row is appended).
C7_FanFieldsEmptyWithoutFan ==
    (c_pc = "watch" /\ ~roles.fan_cd.some)
        => /\ Len(Rows) = line_cnt + 1
           /\ \A i \in FanCols : Rows[Len(Rows)][i] = <<>>
           /\ \A i \in (3..Len(Header)) \ FanCols :
                 Rows[Len(Rows)][i] = IF snap[i].some THEN snap[i].val ELSE <<>>

\* C8: the first row's dt_ns is 0 and every later row's dt_ns is its ts_ns
\* minus the ts_ns of the row before it, whatever the clock returned.
C8_DeltaIsGapToPreviousRow ==
    \A i \in 1..Len(Rows) :
        Rows[i][Col("dt_ns")] =
            IF i = 1 THEN 0 ELSE Rows[i][Col("ts_ns")] - Rows[i - 1][Col("ts_ns")]

\* the step of a tick after each step
TickOrder ==
    [pc \in {"stamp", "sample", "row", "watch", "count", "sleep"} |->
        CASE pc = "stamp" -> "sample" [] pc = "sample" -> "row" [] pc = "row" -> "watch"
          [] pc = "watch" -> "count" [] pc = "count" -> "sleep" [] pc = "sleep" -> "check"]

\* C9: a step that sets the flag changes nothing else of the program; a tick
\* that has begun goes through all its steps in order whatever the flag is;
\* and when cmd_log has stopped, every row is whole, every row was counted,
\* and a tick that had not yet appended its row when the flag was set has
\* appended it.
C9_NoMidTickCancellation ==
    /\ [][g_stop' # g_stop =>
            UNCHANGED <<argv, fs, cmdVars, envVars, cfgVars, ofs, loopVars>>]_vars
    /\ [][(c_pc \in DOMAIN TickOrder /\ c_pc' # c_pc) => c_pc' = TickOrder[c_pc]]_vars
    /\ []((c_pc = "done" /\ rc = 0) =>
            /\ \A i \in 1..Len(Rows) : Len(Rows[i]) = Len(Header)
            /\ Len(Rows) = line_cnt
            /\ stopped_at.pc \in {"stamp", "sample", "row"} => Len(Rows) = stopped_at.rows + 1
            /\ stopped_at.pc \in {"watch", "count", "sleep", "check"}
                  => Len(Rows) = stopped_at.rows)

\* the flag was set between the reads and the row of the first tick, and the
\* row is in the sink
C9_Witness ==
    /\ c_pc = "done"
    /\ rc = 0
    /\ stopped_at = [pc |-> "row", rows |-> 0]
    /\ Len(Rows) = 1
    /\ Len(Rows[1]) = 19

\* C10: once the flag is set while the loop runs, cmd_log stops; no tick
\* begins while the flag is set, so at most one row is appended after the
\* flag was set, and none when it was set before the first check.
C10_StopsWithinOneTick ==
    /\ (g_stop = 1 /\ c_pc \in LoopPcs) ~> (c_pc = "done" /\ rc = 0 /\ note = "Stopped.")
    /\ [][g_stop # 0 => ~(c_pc = "check" /\ c_pc' = "stamp")]_vars
    /\ [](stopped_at.rows >= 0 => Len(Rows) <= stopped_at.rows + 1)
    /\ [](stopped_at = [pc |-> "check", rows |-> 0] => Rows = <<>>)

\* the flag was set during the reads of the second tick: one more row, then
\* stopped
C10_Witness ==
    /\ c_pc = "done"
    /\ note = "Stopped."
    /\ stopped_at = [pc |-> "sample", rows |-> 1]
    /\ Len(Rows) = 2

-----------------------------------------------------------------------------
(* Read failures in the loop of cmd_log *)

\* the columns that hold a value read
ReadCols == {Header[i] : i \in 3..Len(Header)}

\* one attribute of each kind: CPU, GPU, fan, the pwm1 file, thermal zones
FailCols == {"cpu_khz", "cpu_governor", "gpu_hz", "fan_cur_state", "fan_pwm",
             "temp_cpu_mC", "temp_tj_mC"}

\* runs on the Orin tree in which the reads of any set of FailCols, or all
\* reads, may fail in a tick
InitLogFail ==
    /\ argv = <<T_tool, T_log>>
    /\ fs = LogTree("policy0", "gpu", ThermalFull, Pwm1)
    /\ now = 7
    /\ flaky \in (SUBSET FailCols) \cup {ReadCols}
    /\ c_pc = "call"
    /\ rc = -1
    /\ out = <<>>
    /\ note = ""
    /\ written = <<>>
    /\ LogNotBegun
    /\ IdleRead /\ IdleWrite /\ IdleDisc

SpecLogFail == InitLogFail /\ [][NextLog]_vars

\* C11: whatever reads of a tick return the absent value, the tick goes on
\* from its reads to its row, appends exactly one row, and the row is empty
\* in each field whose read was absent; the loop is left only from the loop
\* condition with the flag set.
C11_ReadFailureNeverStopsLoop ==
    /\ [][(c_pc \in LoopPcs /\ c_pc' \notin LoopPcs) => (c_pc = "check" /\ g_stop # 0)]_vars
    /\ [][(c_pc = "sample" /\ c_pc' # c_pc) => c_pc' = "row"]_vars
    /\ [][(c_pc = "row" /\ c_pc' # c_pc) =>
            (c_pc' = "watch" /\ Len(ofs'.lines) = Len(ofs.lines) + 1)]_vars
    /\ [](c_pc = "watch" =>
            /\ Len(Rows) = line_cnt + 1
            /\ \A i \in 3..Len(Header) : ~snap[i].some => Rows[Len(Rows)][i] = <<>>)

\* a second tick in which every read failed, after a first in which none did
C11_Witness ==
    /\ c_pc = "watch"
    /\ line_cnt = 1
    /\ Len(Rows) = 2
    /\ \A i \in 3..Len(Header) : ~snap[i].some /\ Rows[2][i] = <<>>
    /\ Rows[1][Col("cpu_khz")] # <<>>
    /\ Rows[1][Col("fan_pwm")] # <<>>
    /\ Rows[1][Col("temp_tj_mC")] # <<>>

-----------------------------------------------------------------------------
(* The states of the scheduler *)

\* Idle: cmd_log has not reached its loop; Running: it is in the loop;
\* Stopped: it has left the loop and returned 0
Idle == c_pc = "call"
Running == c_pc \in LoopPcs
Stopped == c_pc = "done" /\ rc = 0
Failed == c_pc = "done" /\ rc \in {1, 3}

\* C12: the scheduler is Idle, Running, Stopped, or has failed before the
\* loop; Running is entered only from Idle, only with the sink open, and
\* never after Stopped; Running is left only to Stopped; when the
\* sink cannot be opened cmd_log returns 1 with no sink, header or row
\* written, no tick begun and no attribute sampled.
C12_IdleRunningStopped ==
    /\ [](Idle \/ Running \/ Stopped \/ Failed)
    /\ []((Running \/ Stopped) => (ofs.open /\ ofs.lines[1] = Header))
    /\ [][(~Running /\ Running') => Idle]_vars
    /\ [][(Stopped \/ Failed) => (c_pc' = c_pc /\ rc' = rc)]_vars
    /\ [][(Running /\ ~Running') => Stopped']_vars
    /\ []((c_pc = "done" /\ rc = 1) =>
            /\ note = "Failed to open"
            /\ ofs = NoSink
            /\ line_cnt = 0 /\ next = 0 /\ ts = 0
            /\ snap = <<>> /\ reads = <<>> /\ renders = <<>>)

\* the sink could not be opened after a discovery that found both directories
C12_Witness ==
    /\ c_pc = "done"
    /\ rc = 1
    /\ roles.cpu_dir.some /\ roles.gpu_dir.some
    /\ ofs = NoSink

-----------------------------------------------------------------------------
(* dvfs_set: the older tool, with its directories fixed *)

T_dvfs_set == <<"dvfs_set">>

\* the directories dvfs_set writes to
SetCpuDir == [root |-> CPUFREQ, name |-> K_policy \o <<"4">>]
SetGpuDir == [root |-> DEVFREQ, name |-> <<"1", "7", "0", "0", "0", "0", "0", "0", ".">> \o K_gpu]

\* one write_text call of dvfs_set: the open succeeds and the stream stays
\* good, or not
do_write_set(path, val, ok) ==
    LET r == write_text_set(val, ok, ok)
    IN  [path |-> path, val |-> val, bytes |-> r.bytes, ok |-> r.ret]

\* main of dvfs_set.cpp: o[i] says whether the i-th write succeeds
dvfs_set_main(av, o) ==
    IF Len(av) < 3
    THEN [rc |-> 1, note |-> "Usage: sudo dvfs_set <cpu_khz> <gpu_hz>", written |-> <<>>]
    ELSE [rc |-> 0, note |-> "",
          written |-> <<do_write_set(AttrPath(SetCpuDir, "scaling_min_freq"), av[2], o[1]),
                        do_write_set(AttrPath(SetCpuDir, "scaling_max_freq"), av[2], o[2]),
                        do_write_set(AttrPath(SetGpuDir, "min_freq"), av[3], o[3]),
                        do_write_set(AttrPath(SetGpuDir, "max_freq"), av[3], o[4])>>]

\* dvfs_set with up to three words after its name
InitDvfsSet ==
    /\ \E k \in 0..3 : \E rest \in [1..k -> {V_1344000, V_918000000}] :
          argv = <<T_dvfs_set>> \o rest
    /\ fs = NoFs
    /\ c_pc = "call"
    /\ rc = -1
    /\ out = <<>>
    /\ note = ""
    /\ written = <<>>
    /\ IdleRead /\ IdleWrite /\ IdleDisc /\ IdleLog

\* one run of dvfs_set
DvfsSetMain ==
    /\ c_pc = "call"
    /\ argv[1] = T_dvfs_set
    /\ \E o \in [1..4 -> BOOLEAN] :
          LET r == dvfs_set_main(argv, o)
          IN  rc' = r.rc /\ note' = r.note /\ written' = r.written
    /\ c_pc' = "done"
    /\ UNCHANGED <<argv, fs, out>>
    /\ UNCHANGED notCmd

NextDvfsSet == DvfsSetMain

SpecDvfsSet == InitDvfsSet /\ [][NextDvfsSet]_vars

\* C13: a run that made write_text calls returns 0 exactly when every one of
\* them returned true (checked for dvfs_set, whose four writes are all
\* attempted whatever the earlier ones returned).
C13_ZeroIffEveryWriteOk ==
    (c_pc = "done" /\ written # <<>>)
        => /\ Len(written) = 4
           /\ rc = 0 <=> all_ok(written)

-----------------------------------------------------------------------------
(* Flushing the sink *)

\* the rows appended and not yet flushed
Unflushed == Len(ofs.lines) - ofs.flushed

\* C14: when cmd_log has stopped, every row appended in the run is flushed,
\* "Stopped." was printed and the exit status is 0, whatever the number of
\* ticks; and it is the return that flushes the rows left unflushed.
C14_FlushedWhenStopped ==
    /\ []((c_pc = "done" /\ ofs.open) =>
            (Unflushed = 0 /\ note = "Stopped." /\ rc = 0 /\ Len(Rows) = line_cnt))
    /\ [][(Running /\ c_pc' = "done") =>
            (ofs'.lines = ofs.lines /\ ofs'.flushed = Len(ofs.lines))]_vars

\* stopped after two ticks, whose rows no tick had flushed
C14_Witness ==
    /\ c_pc = "done"
    /\ rc = 0
    /\ note = "Stopped."
    /\ line_cnt = 2
    /\ Len(Rows) = 2
    /\ ofs.flushed = 3

-----------------------------------------------------------------------------
(* Long runs of dvfs_tool log *)

\* runs whose reads all succeed and take less than the period: the default
\* period or 5 ms, with and without --watch, on the Orin tree
InitLogLong ==
    /\ argv \in {<<T_tool, T_log>>,
                 <<T_tool, T_log, F_period_ms, <<"5">>>>,
                 <<T_tool, T_log, F_watch, F_watch_ms, <<"1", "2">>, F_period_ms, <<"5">>>>}
    /\ fs \in {LogTree("policy0", "gpu", ThermalFull, Pwm1),
               LogTree("policy0", "gpu", NoDir, NoFile)}
    /\ now \in StartTimes
    /\ flaky = {}
    /\ c_pc = "call"
    /\ rc = -1
    /\ out = <<>>
    /\ note = ""
    /\ written = <<>>
    /\ LogNotBegun
    /\ IdleRead /\ IdleWrite /\ IdleDisc

\* while (!g_stop) holds, in a long run
LogEnterTickLong ==
    /\ c_pc = "check"
    /\ g_stop = 0
    /\ line_cnt < MaxLongTicks
    /\ next' = next + period_ms
    /\ c_pc' = "stamp"
    /\ UNCHANGED <<argv, fs, rc, note, g_stop, envVars, cfgVars, ofs, stopped_at>>
    /\ UNCHANGED <<line_cnt, prev_ts, last_watch_ns, watch_initialized, ts, dt, snap, renders, reads, loop_start>>
    /\ UNCHANGED notLog

NextLogLong ==
    \/ LogStart
    \/ LogEnterTickLong
    \/ LogExit
    \/ LogStamp
    \/ LogSample
    \/ LogRow
    \/ LogWatch
    \/ LogCount
    \/ LogSleep
    \/ on_sigint

SpecLogLong == InitLogLong /\ [][NextLogLong]_vars

\* C15: the header is flushed before the first tick; while the loop runs the
\* sink is flushed only when the count of rows reaches a multiple of 10, and
\* always then; so at each tick boundary the rows not yet flushed number
\* (rows appended mod 10), at most 9.
C15_FlushEveryTenRows ==
    /\ []((c_pc = "check" /\ line_cnt = 0) => (ofs.lines = <<Header>> /\ ofs.flushed = 1))
    /\ [](c_pc = "check" =>
            (Len(Rows) = line_cnt /\ Unflushed = Len(Rows) % 10 /\ Unflushed <= 9))
    /\ [][(Running /\ Running' /\ ofs'.flushed # ofs.flushed) =>
            (c_pc = "count" /\ Len(Rows) % 10 = 0 /\ ofs'.flushed = Len(ofs.lines))]_vars
    /\ [][(c_pc = "count" /\ c_pc' = "sleep" /\ Len(Rows) % 10 = 0) => Unflushed' = 0]_vars

\* the boundary after the 20th row, flushed at the 10th and the 20th
C15_Witness ==
    /\ c_pc = "check"
    /\ g_stop = 0
    /\ line_cnt = 20
    /\ Len(Rows) = 20
    /\ Unflushed = 0

-----------------------------------------------------------------------------
(* The live view *)

\* C16: with --watch absent nothing is rendered, and the timestamps of two
\* renders in a row are at least watch_ms apart.
C16_RendersAtLeastIntervalApart ==
    /\ ~watch_mode => renders = <<>>
    /\ \A i \in 2..Len(renders) : renders[i] - renders[i - 1] >= watch_ms * NsPerMs

-----------------------------------------------------------------------------
(* The schedule of the ticks *)

\* C17: the instant the loop blocks on at the end of its k-th tick is the
\* loop's start plus k periods, however long the reads of any tick took;
\* sleep_until returns at that instant, or at once when it has passed, and
\* moves no scheduled instant.
C17_AbsoluteSchedule ==
    /\ [](c_pc \in {"sleep", "check"} => next = loop_start + line_cnt * period_ms)
    /\ [](c_pc = "check" => now >= next)
    /\ [][(c_pc = "sleep" /\ c_pc' = "check") =>
            (next' = next /\ now' = IF now < next THEN next ELSE now)]_vars

\* the end of a second tick on a loop that is behind its schedule: the reads
\* took longer than the period
C17_Witness ==
    /\ c_pc = "sleep"
    /\ line_cnt = 2
    /\ period_ms = 1
    /\ next = loop_start + 2
    /\ now = loop_start + 3

\* the time the loop has run, in milliseconds
Elapsed == now - loop_start

\* C18: while the loop runs uncancelled with reads that take less than the
\* period, the number of rows is within one of the time the loop has run
\* divided by the period.
C18_RowsWithinOneOfDurationOverPeriod ==
    (Running /\ g_stop = 0 /\ \A lat \in Latencies : lat < period_ms)
        => /\ Len(Rows) - (Elapsed \div period_ms) <= 1
           /\ (Elapsed \div period_ms) - Len(Rows) <= 1

\* 98 ms into a run of period 5 ms: the 20th row is in the sink
C18_Witness ==
    /\ c_pc = "watch"
    /\ g_stop = 0
    /\ period_ms = 5
    /\ Elapsed = 98
    /\ Len(Rows) = 20

-----------------------------------------------------------------------------
(* The lines of the sink *)

\* the ticks that have appended their row
TicksWithRow == line_cnt + (IF c_pc \in {"watch", "count"} THEN 1 ELSE 0)

\* C19: the sink holds the header, once and first, then one row for each tick
\* that has reached its row, in the order of the ticks; each row has the 19
\* fields of the header in its order: ts, dt, then for each column the value
\* read for it, or the empty string where the value is absent.
C19_HeaderThenOneRowPerTick ==
    ofs.open =>
        /\ Len(Header) = 19
        /\ ofs.lines[1] = Header
        /\ \A i \in 1..Len(Rows) : Rows[i][Col("ts_ns")] \in Nat /\ Rows[i][Col("dt_ns")] \in Nat
        /\ Len(Rows) = TicksWithRow
        /\ \A i \in 1..Len(Rows) : Len(Rows[i]) = 19
        /\ \A i \in 2..Len(Rows) : Rows[i - 1][Col("ts_ns")] <= Rows[i][Col("ts_ns")]
        /\ c_pc = "watch" =>
               /\ Rows[Len(Rows)][Col("ts_ns")] = ts
               /\ Rows[Len(Rows)][Col("dt_ns")] = dt
               /\ \A i \in 3..19 :
                     Rows[Len(Rows)][i] = IF snap[i].some THEN snap[i].val ELSE <<>>
               /\ Rows[Len(Rows)][Col("cpu_governor")] = <<"schedutil">>
               /\ Rows[Len(Rows)][Col("gpu_governor")] = <<"nvhost_podgov">>
               /\ Rows[Len(Rows)][Col("gpu_max_hz")] = <<"1300500000">>

\* a second row whose cpu_khz could not be read, after a first whose could
C19_Witness ==
    /\ c_pc = "watch"
    /\ Len(Rows) = 2
    /\ Rows[1][Col("cpu_khz")] = <<"1344000">>
    /\ Rows[2][Col("cpu_khz")] = <<>>
    /\ Rows[2][Col("gpu_hz")] = <<"918000000">>

-----------------------------------------------------------------------------
(* Reads per tick and the roles found at discovery *)

\* whether the role that column h belongs to was found at discovery
role_found(r, h) ==
    CASE h \in {"cpu_khz", "cpu_min_khz", "cpu_max_khz", "cpu_governor"} -> r.cpu_dir.some
      [] h \in {"gpu_hz", "gpu_min_hz", "gpu_max_hz", "gpu_governor"} -> r.gpu_dir.some
      [] h \in {"fan_cur_state", "fan_max_state", "fan_pwm"} -> r.fan_cd.some
      [] h = "temp_cpu_mC"  -> r.tz_cpu.some
      [] h = "temp_gpu_mC"  -> r.tz_gpu.some
      [] h = "temp_soc0_mC" -> r.tz_soc0.some
      [] h = "temp_soc1_mC" -> r.tz_soc1.some
      [] h = "temp_soc2_mC" -> r.tz_soc2.some
      [] h = "temp_tj_mC"   -> r.tz_tj.some
      [] OTHER -> FALSE

\* how many times the tick just sampled called read_text for column h
reads_for(h) == Cardinality({i \in 1..Len(reads) : reads[i] = h})

\* C20: in every tick read_text is called once for each attribute whose role
\* was found at discovery and not at all for an attribute of a role that was
\* not found; the roles found are fixed before the first tick and do not
\* change while the loop runs.
C20_OneReadPerResolvedAttribute ==
    /\ [](c_pc = "row" =>
            \A i \in 3..Len(Header) :
                reads_for(Header[i]) = IF role_found(roles, Header[i]) THEN 1 ELSE 0)
    /\ [][(c_pc \in LoopPcs) => (roles' = roles)]_vars

-----------------------------------------------------------------------------
(* The discovery functions, one call and a second call on the same tree *)

N_policy4 == K_policy \o <<"4">>
N_xpolicy == <<"x">> \o K_policy
N_boost   == <<"b", "o", "o", "s", "t">>

\* names of entries of /sys/devices/system/cpu/cpufreq
CpufreqNames == {N_policy0, N_policy4, N_xpolicy, N_boost}

\* what an entry of the cpufreq root may be
CpuEntryKinds ==
    {[dir |-> TRUE, attrs |-> {"scaling_cur_freq"}], [dir |-> TRUE, attrs |-> {}],
     [dir |-> FALSE, attrs |-> {}]}

\* what cpu0/cpufreq may be: missing, a directory without scaling_cur_freq, one
\* with it
Cpu0Kinds ==
    {NoCpu0,
     [exists |-> TRUE, name |-> <<"cpufreq">>, dir |-> TRUE, attrs |-> {}],
     [exists |-> TRUE, name |-> <<"cpufreq">>, dir |-> TRUE, attrs |-> {"scaling_cur_freq"}]}

\* find_cpu_policy_dir of dvfs_probe.cpp: the first directory of the cpufreq
\* root whose path holds "policy", else cpu0/cpufreq when it exists
probe_find_cpu_policy_dir(f) ==
    LET ds == list_dirs(f.cpufreq)
        i  == FirstIndex({k \in 1..Len(ds) : Contains(ds[k].name, K_policy)})
    IN  IF f.cpufreq.exists /\ i # 0 THEN PathOf(CPUFREQ, ds[i])
        ELSE IF f.cpu0.exists THEN PathOf(CPU0, f.cpu0)
        ELSE NoPath

\* the entries a loop over the thermal root calls read_text(.. + "/type") for,
\* up to entry last: the directories whose name passes the test of the loop
type_reads(f, last, by_zone) ==
    LET es == f.thermal.entries
        looked == SelectSeq(SubSeq(es, 1, last),
                            LAMBDA e : /\ e.dir
                                       /\ IF by_zone THEN Contains(e.name, K_thermal_zone)
                                          ELSE StartsWith(e.name, K_cooling_device))
    IN  [k \in 1..Len(looked) |-> looked[k].name]

\* the index in the thermal root of the entry a discovery function returned,
\* the number of entries when it returned nothing
stopped_index(f, res) ==
    IF ~f.thermal.exists THEN 0
    ELSE IF ~res.some THEN Len(f.thermal.entries)
    ELSE CHOOSE i \in 1..Len(f.thermal.entries) : f.thermal.entries[i].name = res.val.name

\* the read_text calls of find_thermal_zone_by_keywords and of
\* find_pwm_fan_cooling_device_dir
thermal_zone_reads(f, kws) ==
    type_reads(f, stopped_index(f, find_thermal_zone_by_keywords(f, kws)), TRUE)
pwm_fan_reads(f) ==
    type_reads(f, stopped_index(f, find_pwm_fan_cooling_device_dir(f)), FALSE)

\* what an entry of the thermal root may be: a zone of some type, a zone
\* without a type file, a zone whose type cannot be read, the fan's cooling
\* device, a cooling device whose type names the CPU, a file named like a zone
ThermalShapes ==
    {"zone_cpu", "zone_gpu", "zone_CPU", "zone_notype", "zone_unreadable", "cool_fan",
     "cool_cpu", "file"}

ThermalEntry(shape, n) ==
    CASE shape = "zone_cpu" -> Zone(n, <<"cpu", "-thermal">>)
      [] shape = "zone_gpu" -> Zone(n, <<"gpu", "-thermal">>)
      [] shape = "zone_CPU" -> Zone(n, <<"CPU", "-therm">>)
      [] shape = "zone_notype" ->
            [name |-> K_thermal_zone \o <<n>>, dir |-> TRUE, attrs |-> {"temp"},
             text |-> [a \in {"temp"} |-> Some(<<"4", n, "500", NL>>)]]
      [] shape = "zone_unreadable" ->
            [name |-> K_thermal_zone \o <<n>>, dir |-> TRUE, attrs |-> {"type", "temp"},
             text |-> [a \in {"type", "temp"} |->
                         IF a = "type" THEN NullOpt ELSE Some(<<"4", n, "500", NL>>)]]
      [] shape = "cool_fan" -> CoolingDev(n, K_pwm_fan)
      [] shape = "cool_cpu" -> CoolingDev(n, <<"cpu", "-thermal">>)
      [] OTHER -> FileEntry(K_thermal_zone \o <<n>>)

\* the thermal root holding entries of these shapes, in this order
ThermalOf(shapes) ==
    [exists |-> TRUE,
     entries |-> [i \in 1..Len(shapes) |-> ThermalEntry(shapes[i], Digits[i])]]

\* a keyword list that names the GPU before the CPU
KW_gpu_cpu == << <<"gpu">>, <<"cpu">> >>

\* the keyword lists find_thermal_zone_by_keywords is called with
ZoneKeywordLists == {KW_cpu, KW_gpu, KW_gpu_cpu}

\* a tree for one discovery call: any cpufreq root and cpu0/cpufreq, or any
\* thermal root beside the usual CPU and GPU directories
InitDisc ==
    /\ \/ \E c0 \in Cpu0Kinds :
            \/ fs = [NoFs EXCEPT !.cpu0 = c0]
            \/ \E k \in 0..MaxEntries :
                 \E names \in [1..k -> CpufreqNames], kinds \in [1..k -> CpuEntryKinds] :
                    /\ DistinctNames(names)
                    /\ fs = [NoFs EXCEPT !.cpufreq = DirOf(names, kinds), !.cpu0 = c0]
       \/ \E k \in 0..MaxEntries :
            \E shapes \in [1..k -> ThermalShapes] :
               fs = [CmdTree("policy0", {}, "gpu", Some(<<"306000000", NL>>), {})
                       EXCEPT !.thermal = ThermalOf(shapes)]
    /\ d_pc = "call"
    /\ d_fn = ""
    /\ d_res = NoPath
    /\ d_arg = <<>>
    /\ d_reads = <<>>
    /\ IdleRead /\ IdleWrite /\ IdleCmd /\ IdleLog

\* a function may be called on a fresh tree, and once more after it returned
callable(fn, arg) == d_pc = "call" \/ (d_pc = "done" /\ d_fn = fn /\ d_arg = arg)

\* one call of find_cpu_policy_dir of dvfs_tool.cpp
DiscoverCpu ==
    /\ callable("find_cpu_policy_dir", <<>>)
    /\ d_res' = find_cpu_policy_dir(fs)
    /\ d_fn' = "find_cpu_policy_dir"
    /\ d_pc' = IF d_pc = "call" THEN "done" ELSE "again"
    /\ d_arg' = <<>>
    /\ d_reads' = <<>>
    /\ UNCHANGED fs
    /\ UNCHANGED notDisc

\* one call of find_cpu_policy_dir of dvfs_probe.cpp
DiscoverCpuProbe ==
    /\ callable("probe:find_cpu_policy_dir", <<>>)
    /\ d_res' = probe_find_cpu_policy_dir(fs)
    /\ d_fn' = "probe:find_cpu_policy_dir"
    /\ d_pc' = IF d_pc = "call" THEN "done" ELSE "again"
    /\ d_arg' = <<>>
    /\ d_reads' = <<>>
    /\ UNCHANGED fs
    /\ UNCHANGED notDisc

\* one call of find_thermal_zone_by_keywords
DiscoverZone ==
    \E kws \in ZoneKeywordLists :
        /\ callable("find_thermal_zone_by_keywords", kws)
        /\ d_res' = find_thermal_zone_by_keywords(fs, kws)
        /\ d_fn' = "find_thermal_zone_by_keywords"
        /\ d_pc' = IF d_pc = "call" THEN "done" ELSE "again"
        /\ d_arg' = kws
        /\ d_reads' = thermal_zone_reads(fs, kws)
        /\ UNCHANGED fs
        /\ UNCHANGED notDisc

\* find_pwm_fan_cooling_device_dir taking the entry it found out of the tree
DiscoverFan_removes_entry ==
    /\ callable("find_pwm_fan_cooling_device_dir", <<>>)
    /\ d_res' = find_pwm_fan_cooling_device_dir(fs)
    /\ d_fn' = "find_pwm_fan_cooling_device_dir"
    /\ d_pc' = IF d_pc = "call" THEN "done" ELSE "again"
    /\ d_arg' = <<>>
    /\ d_reads' = pwm_fan_reads(fs)
    /\ fs' = [fs EXCEPT !.thermal.entries =
                 SelectSeq(@, LAMBDA e : ~(d_res'.some /\ e.name = d_res'.val.name))]
    /\ UNCHANGED notDisc

\* one call of find_pwm_fan_cooling_device_dir
DiscoverFan ==
    /\ callable("find_pwm_fan_cooling_device_dir", <<>>)
    /\ d_res' = find_pwm_fan_cooling_device_dir(fs)
    /\ d_fn' = "find_pwm_fan_cooling_device_dir"
    /\ d_pc' = IF d_pc = "call" THEN "done" ELSE "again"
    /\ d_arg' = <<>>
    /\ d_reads' = pwm_fan_reads(fs)
    /\ UNCHANGED fs
    /\ UNCHANGED notDisc

NextDisc == DiscoverCpu \/ DiscoverCpuProbe \/ DiscoverGpu \/ DiscoverZone \/ DiscoverFan

SpecDisc == InitDisc /\ [][NextDisc]_vars

-----------------------------------------------------------------------------
(* CPU discovery *)

\* the two implementations of CPU discovery
CpuFns == {"find_cpu_policy_dir", "probe:find_cpu_policy_dir"}

\* a discovery call has returned
Returned == d_pc \in {"done", "again"}

\* the children of the cpufreq root named policy* that expose scaling_cur_freq
PolicyMatches ==
    {i \in 1..Len(fs.cpufreq.entries) :
        /\ fs.cpufreq.entries[i].dir
        /\ StartsWith(fs.cpufreq.entries[i].name, K_policy)
        /\ "scaling_cur_freq" \in fs.cpufreq.entries[i].attrs}

\* C21: CPU discovery returns a directory only if it exposes scaling_cur_freq:
\* the first child of the cpufreq root, in enumeration order, that is named
\* policy* and exposes the attribute; when there is none, cpu0/cpufreq if that
\* exposes the attribute; otherwise NotFound.
C21_CpuDirExposesCurFreq ==
    (Returned /\ d_fn \in CpuFns) =>
        /\ d_res.some => "scaling_cur_freq" \in EntryAt(fs, d_res.val).attrs
        /\ d_res =
              IF PolicyMatches # {}
              THEN [some |-> TRUE,
                    val |-> [root |-> "/sys/devices/system/cpu/cpufreq",
                             name |-> fs.cpufreq.entries[FirstIndex(PolicyMatches)].name]]
              ELSE IF fs.cpu0.exists /\ "scaling_cur_freq" \in fs.cpu0.attrs
              THEN [some |-> TRUE,
                    val |-> [root |-> "/sys/devices/system/cpu/cpu0", name |-> <<"cpufreq">>]]
              ELSE NoPath

-----------------------------------------------------------------------------
(* GPU discovery: what it can return *)

\* the entries of the devfreq root that hold none of the excluded keywords and
\* expose cur_freq and available_frequencies
EligibleEntries ==
    {i \in 1..Len(fs.devfreq.entries) :
        ~IsExcludedEntry(fs.devfreq.entries[i]) /\ HasBothAttrs(fs.devfreq.entries[i])}

\* C22: find_gpu_devfreq_dir never returns an entry whose name holds nvjpg,
\* nvenc, nvdec, vic or se, nor one lacking cur_freq or available_frequencies,
\* and it returns NotFound exactly when no entry of the devfreq root without
\* such a keyword exposes both attributes.
C22_GpuNeverExcludedOrIncomplete ==
    (Returned /\ d_fn = "find_gpu_devfreq_dir") =>
        /\ d_res.some =>
              \E i \in EligibleEntries :
                  d_res.val = [root |-> "/sys/class/devfreq",
                               name |-> fs.devfreq.entries[i].name]
        /\ ~d_res.some <=> EligibleEntries = {}

\* gpu.se with both attributes and 17.gpu with one: nothing came back
C22_Witness ==
    /\ d_pc = "done"
    /\ d_fn = "find_gpu_devfreq_dir"
    /\ Len(fs.devfreq.entries) = 2
    /\ fs.devfreq.entries[1] = DirEntry(N_gpuse, {"cur_freq", "available_frequencies"})
    /\ fs.devfreq.entries[2] = DirEntry(N_17gpu, {"cur_freq"})
    /\ d_res = NoPath

-----------------------------------------------------------------------------
(* Thermal zone discovery *)

\* the entries of the thermal root named like a zone whose type can be read
\* and holds one of the keywords of the call
ZoneMatches ==
    {i \in 1..Len(fs.thermal.entries) :
        /\ Contains(fs.thermal.entries[i].name, <<"thermal_zone">>)
        /\ read_entry(fs.thermal.entries[i], "type").some
        /\ \E j \in 1..Len(d_arg) :
              Contains(read_entry(fs.thermal.entries[i], "type").val, d_arg[j])}

\* where in the thermal root the entry of this name stands
ThermalIndex(name) ==
    CHOOSE i \in 1..Len(fs.thermal.entries) : fs.thermal.entries[i].name = name

\* C23: find_thermal_zone_by_keywords returns the first entry, in enumeration
\* order, whose name holds thermal_zone and whose readable type holds any one
\* of the keywords, whatever the order of the keywords; an entry whose type is
\* absent is passed over; no entry after the one returned is read; the result
\* is NotFound when no entry matches.
C23_FirstZoneInEntryOrder ==
    (Returned /\ d_fn = "find_thermal_zone_by_keywords") =>
        /\ d_res =
              IF ZoneMatches = {} THEN NoPath
              ELSE [some |-> TRUE,
                    val |-> [root |-> "/sys/class/thermal",
                             name |-> fs.thermal.entries[FirstIndex(ZoneMatches)].name]]
        /\ ZoneMatches # {} =>
              /\ \A k \in 1..Len(d_reads) : ThermalIndex(d_reads[k]) <= FirstIndex(ZoneMatches)
              /\ d_reads[Len(d_reads)] = fs.thermal.entries[FirstIndex(ZoneMatches)].name

\* an unreadable zone, the CPU zone, the GPU zone, and the keywords gpu, cpu:
\* the CPU zone came back and the GPU zone was not read
C23_Witness ==
    /\ d_pc = "done"
    /\ d_fn = "find_thermal_zone_by_keywords"
    /\ d_arg = << <<"gpu">>, <<"cpu">> >>
    /\ fs.thermal = ThermalOf(<<"zone_unreadable", "zone_cpu", "zone_gpu">>)
    /\ d_res = [some |-> TRUE,
                val |-> [root |-> "/sys/class/thermal", name |-> <<"thermal_zone", "1">>]]
    /\ d_reads = << <<"thermal_zone", "0">>, <<"thermal_zone", "1">> >>

-----------------------------------------------------------------------------
(* Discovery reads only, and gives the same answer again *)

-----------------------------------------------------------------------------
(* dvfs_tool set --apply: the four writes *)

\* the word after the first occurrence of flag on the command line
WordAfter(flag) ==
    argv[FirstIndex({k \in 1..(Len(argv) - 1) : argv[k] = flag}) + 1]

\* the command line holds --apply
GivenApply == \E i \in 1..Len(argv) : argv[i] = <<"--apply">>

\* C25: cmd_set run with --apply, once both values are given and the CPU and
\* GPU directories are found, calls write_text four times, for the CPU minimum,
\* the CPU maximum, the GPU minimum and the GPU maximum in this order, with the
\* text after --cpu_khz for both CPU files and the text after --gpu_hz for both
\* GPU files; these are the four path and value pairs printed under
\* "Will write:".
C25_SetAppliesFourWritesInOrder ==
    (c_pc = "done" /\ argv[2] = <<"set">> /\ GivenApply /\ rc \notin {2, 3}) =>
        /\ Len(written) = 4
        /\ <<written[1].path.attr, written[2].path.attr, written[3].path.attr,
              written[4].path.attr>>
             = <<"scaling_min_freq", "scaling_max_freq", "min_freq", "max_freq">>
        /\ written[1].path.dir = written[2].path.dir
        /\ written[1].path.dir.root \in {"/sys/devices/system/cpu/cpufreq",
                                          "/sys/devices/system/cpu/cpu0"}
        /\ written[3].path.dir = written[4].path.dir
        /\ written[3].path.dir.root = "/sys/class/devfreq"
        /\ written[1].val = WordAfter(<<"--cpu_khz">>)
        /\ written[2].val = WordAfter(<<"--cpu_khz">>)
        /\ written[3].val = WordAfter(<<"--gpu_hz">>)
        /\ written[4].val = WordAfter(<<"--gpu_hz">>)
        /\ WritePairs(written) = AnnouncedPairs(out)

\* a whole command line applied, one of the four writes failing
C25_Witness ==
    /\ c_pc = "done"
    /\ argv = <<T_tool, T_set, F_cpu_khz, V_1344000, F_gpu_hz, V_918000000, F_apply>>
    /\ rc = 4
    /\ Len(written) = 4
    /\ ~written[3].ok
    /\ written[4].ok

-----------------------------------------------------------------------------
(* dvfs_tool unlock: what it writes *)

\* the first and the last whitespace-delimited token of a text, empty when the
\* text holds nothing but whitespace
FirstToken(s) ==
    LET starts == {i \in 1..Len(s) : ~IsTrailingWs(s[i])}
        i == FirstIndex(starts)
        ends == {j \in i..Len(s) : IsTrailingWs(s[j])}
    IN  IF starts = {} THEN <<>>
        ELSE SubSeq(s, i, IF ends = {} THEN Len(s) ELSE FirstIndex(ends) - 1)
LastToken(s) ==
    LET inside == {i \in 1..Len(s) : ~IsTrailingWs(s[i])}
        j == IF inside = {} THEN 0 ELSE CHOOSE k \in inside : \A m \in inside : m <= k
        before == {i \in 1..j : IsTrailingWs(s[i])}
        i == IF before = {} THEN 0 ELSE CHOOSE k \in before : \A m \in before : m <= k
    IN  IF inside = {} THEN <<>> ELSE SubSeq(s, i + 1, j)

\* the write_text calls of the run on the attribute attr
WritesTo(attr) == SelectSeq(written, LAMBDA w : w.path.attr = attr)

\* the directory the run wrote the GPU bounds under
UnlockGpuDir == WritesTo("min_freq")[1].path.dir

\* C26: cmd_unlock run with --apply writes scaling_min_freq and
\* scaling_max_freq with what it read from cpuinfo_min_freq and
\* cpuinfo_max_freq, each only when that file could be read; it writes min_freq
\* and max_freq with the first and the last whitespace-delimited token of
\* available_frequencies; it writes the governor, with nvhost_podgov, only
\* where a governor file exists; a write that is skipped counts as a success.
C26_UnlockRestoresReportedBounds ==
    (c_pc = "done" /\ argv[2] = <<"unlock">> /\ GivenApply /\ rc # 3) =>
        /\ \A k \in 1..Len(written) :
              /\ written[k].path.attr = "scaling_min_freq" =>
                    Some(written[k].val) = read_attr(fs, written[k].path.dir, "cpuinfo_min_freq")
              /\ written[k].path.attr = "scaling_max_freq" =>
                    Some(written[k].val) = read_attr(fs, written[k].path.dir, "cpuinfo_max_freq")
              /\ written[k].path.attr = "governor" =>
                    /\ written[k].val = <<"nvhost_podgov">>
                    /\ "governor" \in EntryAt(fs, written[k].path.dir).attrs
        /\ Len(WritesTo("min_freq")) = 1 /\ Len(WritesTo("max_freq")) = 1
        /\ Len(WritesTo("governor")) =
              IF "governor" \in EntryAt(fs, UnlockGpuDir).attrs THEN 1 ELSE 0
        /\ LET af == read_attr(fs, UnlockGpuDir, "available_frequencies")
           IN  (af.some /\ FirstToken(af.val) # <<>>) =>
                   /\ WritesTo("min_freq")[1].val = FirstToken(af.val)
                   /\ WritesTo("max_freq")[1].val = LastToken(af.val)
        /\ rc = 0 <=> \A k \in 1..Len(written) : written[k].ok

-----------------------------------------------------------------------------
(* The configured and the effective period *)

\* numbers a period or an interval may be configured with, as written on the
\* command line
ConfigValues ==
    { [text |-> <<"-", "5">>, val |-> -5], [text |-> <<"-", "1">>, val |-> -1],
      [text |-> <<"0">>, val |-> 0], [text |-> <<"1">>, val |-> 1],
      [text |-> <<"2">>, val |-> 2], [text |-> <<"2", "5", "0">>, val |-> 250] }

\* cmd_log run with a configured period and interval, or with neither
InitLogCfg ==
    /\ \/ \E p \in ConfigValues, w \in ConfigValues, watch \in BOOLEAN :
            argv = <<T_tool, T_log, F_period_ms, p.text, F_watch_ms, w.text>>
                   \o (IF watch THEN <<F_watch>> ELSE <<>>)
       \/ argv = <<T_tool, T_log, F_watch>>
    /\ fs = LogTree("policy0", "gpu", ThermalFull, Pwm1)
    /\ now = 0
    /\ flaky = {}
    /\ c_pc = "call"
    /\ rc = -1
    /\ out = <<>>
    /\ note = ""
    /\ written = <<>>
    /\ LogNotBegun
    /\ IdleRead /\ IdleWrite /\ IdleDisc

SpecLogCfg == InitLogCfg /\ [][NextLog]_vars

\* the number configured with flag, and whether one is
IsConfigured(flag) == \E k \in 1..(Len(argv) - 1) : argv[k] = flag
ConfiguredValue(flag) == (CHOOSE c \in ConfigValues : c.text = WordAfter(flag)).val

\* C27: the period cmd_log samples with is positive: a configured period of
\* zero or less is replaced by 100 ms and a positive one is used as it is, the
\* deadline advancing by it each tick; the least interval between renders is
\* treated the same way, with 200 ms.
C27_PeriodClampedToDefault ==
    (c_pc \notin {"idle", "call"}) =>
        /\ period_ms > 0
        /\ watch_ms > 0
        /\ period_ms = IF IsConfigured(<<"--period_ms">>) /\ ConfiguredValue(<<"--period_ms">>) > 0
                       THEN ConfiguredValue(<<"--period_ms">>) ELSE 100
        /\ watch_ms = IF IsConfigured(<<"--watch_ms">>) /\ ConfiguredValue(<<"--watch_ms">>) > 0
                      THEN ConfiguredValue(<<"--watch_ms">>) ELSE 200
        /\ c_pc = "sleep" => next = loop_start + line_cnt * period_ms

\* a period of zero and an interval of -5 were configured: a tick ran with 100
\* and 200
C27_Witness ==
    /\ c_pc = "sleep"
    /\ line_cnt = 1
    /\ WordAfter(<<"--period_ms">>) = <<"0">>
    /\ WordAfter(<<"--watch_ms">>) = <<"-", "5">>
    /\ period_ms = 100
    /\ watch_ms = 200
    /\ next = loop_start + 100

-----------------------------------------------------------------------------
(* The three commands on trees where a directory is missing *)

\* one run of dvfs_tool set, unlock or log on a tree with or without the CPU
\* directory, the GPU directory, the thermal root and pwm1
InitTool ==
    /\ \E ck \in {"none", "policy0", "cpu0"}, gk \in {"none", "gpu"} :
          \/ \E rest \in SetRests \cup UnlockRests :
               /\ argv = <<T_tool, IF rest \in SetRests THEN T_set ELSE T_unlock>> \o rest
               /\ fs = CmdTree(ck, {"cpuinfo_min_freq", "cpuinfo_max_freq"}, gk,
                               Some(<<"306000000", SP, "1020000000", NL>>),
                               {"min_freq", "max_freq", "governor"})
          \/ \E rest \in {<<>>, <<F_watch>>}, th \in ThermalRoots, pw \in {NoFile, Pwm1} :
               /\ argv = <<T_tool, T_log>> \o rest
               /\ fs = LogTree(ck, gk, th, pw)
    /\ c_pc = "call"
    /\ rc = -1
    /\ out = <<>>
    /\ note = ""
    /\ written = <<>>
    /\ LogNotBegun
    /\ now = 0
    /\ flaky = {}
    /\ IdleRead /\ IdleWrite /\ IdleDisc

\* main dispatching to cmd_set, cmd_unlock or cmd_log
NextTool == CmdSet \/ CmdUnlock \/ NextLog

SpecTool == InitTool /\ [][NextTool]_vars

\* the tree holds no CPU directory, or no GPU directory, that discovery accepts
CpuMissing ==
    PolicyMatches = {} /\ ~(fs.cpu0.exists /\ "scaling_cur_freq" \in fs.cpu0.attrs)
GpuMissing == EligibleEntries = {}

\* the command gets as far as discovery: set does so once both values are given
RunsDiscovery ==
    argv[2] = <<"set">> => (IsConfigured(<<"--cpu_khz">>) /\ IsConfigured(<<"--gpu_hz">>))

\* C28: when CPU or GPU discovery finds nothing, cmd_log, cmd_set and
\* cmd_unlock return nonzero with the hint to run probe, having called
\* write_text not once and, for cmd_log, without having opened the sink or
\* run a tick; when both are found, cmd_log does not fail for want of the fan,
\* of pwm1 or of any thermal zone.
C28_MissingCpuOrGpuIsFatalEarly ==
    /\ (c_pc # "call" /\ RunsDiscovery /\ (CpuMissing \/ GpuMissing)) =>
          /\ c_pc = "done"
          /\ rc = 3
          /\ note = "Run: dvfs_tool probe"
          /\ written = <<>>
          /\ out = <<>>
          /\ ~ofs.open /\ ofs.lines = <<>>
          /\ line_cnt = 0 /\ ts = 0
    /\ (c_pc # "call" /\ argv[2] = <<"log">> /\ ~CpuMissing /\ ~GpuMissing) =>
          /\ rc # 3
          /\ rc # -1 => (rc = 0 /\ note = "Stopped.") \/ (rc = 1 /\ note = "Failed to open")

\* cmd_log on a tree with the CPU directory and without the GPU directory
C28_Witness ==
    /\ c_pc = "done"
    /\ argv[2] = T_log
    /\ ~CpuMissing /\ GpuMissing
    /\ rc = 3
    /\ ~ofs.open

=============================================================================
